---- MODULE Spec2Model ----
(***************************************************************************)
(* json2hcl / hcl2json: the JSON -> HCL synthesizer (package main) and the  *)
(* HCL -> JSON serializer (package convert).                                *)
(*                                                                         *)
(* Text is a sequence of one-character strings.  Object keys, attribute     *)
(* names, block types and block labels are identifiers and are kept as      *)
(* atomic strings.  A JSON value is a one-field record whose field name is  *)
(* its kind: [null], [bool], [num], [str], [list], [obj].                   *)
(***************************************************************************)
EXTENDS Integers, Sequences, FiniteSets, TLC

VARIABLES
    reverse,        \* the -reverse flag of the running process
    targetFileType, \* the global set by main from the flags
    stdin,          \* what the running process reads
    pc,             \* position of the running process
    body,           \* reverse: the parsed hclsyntax body; forward: the JSON attributes
    idx,            \* reverse: number of blocks of body.Blocks already converted
    todo,           \* forward: names of the attributes not yet visited by the range loop
    out,            \* reverse: the jsonObj ConvertBody is filling
    native,         \* forward: the hclwrite body being filled
    err,            \* the error the process ends with (NoErr: nil)
    ret,            \* reverse: what ConvertBody, ConvertFile and Bytes returned
    stdout,         \* what the process has printed
    flags,          \* the command line flags
    orig,           \* the text the first run was started on
    runs            \* how many more runs are piped after this one

vars == <<reverse, flags, targetFileType, stdin, pc, body, idx, todo, out, native, err, ret,
          stdout, orig, runs>>

(***************************************************************************)
(* Text                                                                    *)
(***************************************************************************)
DollarBrace == <<"$", "{">>
PercentBrace == <<"%", "{">>

HasAt(s, i, p) == i >= 1 /\ i + Len(p) - 1 <= Len(s) /\ SubSeq(s, i, i + Len(p) - 1) = p

\* strings.Contains
Contains(s, p) == \E i \in 1..Len(s) : HasAt(s, i, p)

\* strings.Replace(s, old, new, -1): leftmost non-overlapping occurrences
RECURSIVE ReplaceFrom(_, _, _, _)
ReplaceFrom(s, i, old, new) ==
    IF i > Len(s) THEN <<>>
    ELSE IF HasAt(s, i, old) THEN new \o ReplaceFrom(s, i + Len(old), old, new)
    ELSE <<s[i]>> \o ReplaceFrom(s, i + 1, old, new)

ReplaceAll(s, old, new) == ReplaceFrom(s, 1, old, new)

RECURSIVE Concat(_)
Concat(ss) == IF ss = <<>> THEN <<>> ELSE Head(ss) \o Concat(Tail(ss))

(***************************************************************************)
(* JSON values (interface{} on the convert side, cty.Value on the main      *)
(* side)                                                                   *)
(***************************************************************************)
JNull == [null |-> TRUE]
JBool(b) == [bool |-> b]
JNum(n) == [num |-> n]
JStr(s) == [str |-> s]
JList(l) == [list |-> l]
JObj(f) == [obj |-> f]

IsNull(v) == DOMAIN v = {"null"}
IsBool(v) == DOMAIN v = {"bool"}
IsNum(v) == DOMAIN v = {"num"}
IsStr(v) == DOMAIN v = {"str"}
IsList(v) == DOMAIN v = {"list"}
IsObj(v) == DOMAIN v = {"obj"}

EmptyMap == <<>>
\* m[key] = value on a Go map
Put(m, key, value) == [x \in DOMAIN m \cup {key} |-> IF x = key THEN value ELSE m[x]]

\* a Go nil result, and the nil error
Nil == [nil |-> TRUE]
NoErr == "nil"
Ret(v, e) == [val |-> v, err |-> e]

(***************************************************************************)
(* hclsyntax expression nodes.  Src is the source text of the node's range; *)
(* Paren says that the byte right after the range is a closing paren.       *)
(***************************************************************************)
LiteralValueExpr(v) == [k |-> "LiteralValueExpr", Val |-> v]
ScopeTraversalExpr(names, src, paren) ==
    [k |-> "ScopeTraversalExpr", Traversal |-> names, Src |-> src, Paren |-> paren]
UnaryOpExpr(op, operand, src, paren) ==
    [k |-> "UnaryOpExpr", Op |-> op, Operand |-> operand, Src |-> src, Paren |-> paren]
TemplateExpr(parts) == [k |-> "TemplateExpr", Parts |-> parts]
TemplateWrapExpr(e) == [k |-> "TemplateWrapExpr", Wrapped |-> e]
TupleConsExpr(es) == [k |-> "TupleConsExpr", Exprs |-> es]
ObjectConsExpr(items) == [k |-> "ObjectConsExpr", Items |-> items]
ObjectConsItem(key, e) == [KeyName |-> key, ValueExpr |-> e]
ConditionalExpr(cond, t, f, src, paren) ==
    [k |-> "ConditionalExpr", Condition |-> cond, TrueResult |-> t, FalseResult |-> f,
     Src |-> src, Paren |-> paren]
TemplateJoinExpr(keyVar, valVar, coll, valExpr) ==
    [k |-> "TemplateJoinExpr", KeyVar |-> keyVar, ValVar |-> valVar, CollExpr |-> coll,
     ValExpr |-> valExpr]
\* every other node kind (function call, binary operator, relative traversal,
\* index, splat, for expression, parentheses, ...)
OtherExpr(src, paren) == [k |-> "OtherExpr", Src |-> src, Paren |-> paren]

(***************************************************************************)
(* package convert: expressions                                            *)
(***************************************************************************)
rangeSource(e) == IF e.Paren THEN e.Src \o <<")">> ELSE e.Src

\* the source text of the expression, not wrapped
bareExpr(e) == rangeSource(e)

wrapExpr(e) == DollarBrace \o rangeSource(e) \o <<"}">>

\* an escape that doubles every dollar sign
escapeDollars(lit) == ReplaceAll(lit, <<"$">>, <<"$", "$">>)

\* an escape of "${" alone
escapeInterpolation(lit) == ReplaceAll(lit, DollarBrace, <<"$", "$", "{">>)

escapeLiteral(lit) ==
    ReplaceAll(ReplaceAll(lit, DollarBrace, <<"$", "$", "{">>), PercentBrace, <<"%", "%", "{">>)

ErrExpression == "expr"

\* UnaryOpExpr.Value(nil) on a literal operand: negation wants a number, logical
\* not wants a bool; a null operand and an operand of the other type are
\* diagnosed ("Invalid operand").
UnaryValue(op, v) ==
    IF op = "-" /\ IsNum(v) THEN Ret(JNum(0 - v.num), NoErr)
    ELSE IF op = "!" /\ IsBool(v) THEN Ret(JBool(~v.bool), NoErr)
    ELSE Ret(Nil, ErrExpression)

convertUnary(v) ==
    IF v.Operand.k # "LiteralValueExpr" THEN Ret(JStr(wrapExpr(v)), NoErr)
    ELSE UnaryValue(v.Op, v.Operand.Val)

\* ctyconvert.Convert(v.Val, cty.String) of a literal template part
LiteralText(v) ==
    IF IsStr(v) THEN v.str
    ELSE IF IsBool(v) THEN (IF v.bool THEN <<"t", "r", "u", "e">> ELSE <<"f", "a", "l", "s", "e">>)
    ELSE <<ToString(v.num)>>    \* a numeral is kept as one piece of text

IsStringLiteral(t) == Len(t.Parts) = 1 /\ t.Parts[1].k = "LiteralValueExpr"

\* the error of the first failed result of a sequence of results
firstErr(rs) ==
    rs[CHOOSE i \in DOMAIN rs : rs[i].err # NoErr /\ \A j \in DOMAIN rs : rs[j].err # NoErr => i <= j].err

anyErr(rs) == \E i \in DOMAIN rs : rs[i].err # NoErr

RECURSIVE convertStringPart(_)
RECURSIVE convertTemplate(_)

\* a conditional that writes the else branch also when it is empty
alwaysElse(head, t, f) ==
    Ret(head \o t.val \o <<"%", "{", "e", "l", "s", "e", "}">> \o f.val
        \o <<"%", "{", "e", "n", "d", "i", "f", "}">>, NoErr)

\* convertTemplateConditional once both branches are converted: t and f
conditionalText(head, t, f) ==
    IF t.err # NoErr THEN Ret(<<>>, NoErr)
    ELSE Ret(head \o t.val
             \o (IF Len(f.val) > 0 THEN <<"%", "{", "e", "l", "s", "e", "}">> \o f.val ELSE <<>>)
             \o <<"%", "{", "e", "n", "d", "i", "f", "}">>, NoErr)

convertTemplateConditional(e) ==
    conditionalText(<<"%", "{", "i", "f", " ">> \o rangeSource(e.Condition) \o <<"}">>,
                    convertStringPart(e.TrueResult), convertStringPart(e.FalseResult))

\* convertTemplateFor once the body is converted: t
forText(head, t) ==
    IF t.err # NoErr THEN Ret(<<>>, t.err)
    ELSE Ret(head \o t.val \o <<"%", "{", "e", "n", "d", "f", "o", "r", "}">>, NoErr)

convertTemplateFor(e) ==
    forText(<<"%", "{", "f", "o", "r", " ">>
            \o (IF Len(e.KeyVar) > 0 THEN e.KeyVar \o <<",", " ">> ELSE <<>>)
            \o e.ValVar \o <<" ", "i", "n", " ">> \o rangeSource(e.CollExpr) \o <<"}">>,
            convertStringPart(e.ValExpr))

\* a part dispatch that renders an embedded traversal of one step as its root
dispatchPart(e) ==
    CASE e.k = "LiteralValueExpr" ->
            IF IsNull(e.Val) THEN Ret(<<"n", "u", "l", "l">>, NoErr)
            ELSE Ret(escapeLiteral(LiteralText(e.Val)), NoErr)
      [] e.k = "TemplateExpr" -> convertTemplate(e)
      [] e.k = "TemplateWrapExpr" -> convertStringPart(e.Wrapped)
      [] e.k = "ConditionalExpr" -> convertTemplateConditional(e)
      [] e.k = "TemplateJoinExpr" -> convertTemplateFor(e)
      [] e.k = "ScopeTraversalExpr" /\ Len(e.Traversal) = 1 -> Ret(e.Traversal[1], NoErr)
      [] OTHER -> Ret(wrapExpr(e), NoErr)

convertStringPart(e) ==
    CASE e.k = "LiteralValueExpr" ->
            IF IsNull(e.Val) THEN Ret(<<"n", "u", "l", "l">>, NoErr)
            ELSE Ret(escapeLiteral(LiteralText(e.Val)), NoErr)
      [] e.k = "TemplateExpr" -> convertTemplate(e)
      [] e.k = "TemplateWrapExpr" -> convertStringPart(e.Wrapped)
      [] e.k = "ConditionalExpr" -> convertTemplateConditional(e)
      [] e.k = "TemplateJoinExpr" -> convertTemplateFor(e)
      [] OTHER -> Ret(wrapExpr(e), NoErr)

\* the builder loop of convertTemplate once the parts are converted: rs
partsText(rs) ==
    IF anyErr(rs) THEN Ret(<<>>, firstErr(rs))
    ELSE Ret(Concat([i \in DOMAIN rs |-> rs[i].val]), NoErr)

convertTemplate(t) ==
    IF IsStringLiteral(t) THEN Ret(escapeLiteral(LiteralText(t.Parts[1].Val)), NoErr)
    ELSE partsText([i \in 1..Len(t.Parts) |-> convertStringPart(t.Parts[i])])

\* convertKey of an item whose key is an ObjectConsKeyExpr around a bare
\* identifier: the key's own source text
convertKey(item) == item.KeyName

\* Options.Simplify as toJSON passes it (convert.Options{})
Simplify == FALSE

\* expr.Value(evalContext) with no variables and no functions
RECURSIVE ExprValue(_)
tupleValue(rs) ==
    IF anyErr(rs) THEN Ret(Nil, ErrExpression) ELSE Ret(JList([i \in DOMAIN rs |-> rs[i].val]), NoErr)

unaryOf(op, o) == IF o.err # NoErr THEN o ELSE UnaryValue(op, o.val)

ExprValue(e) ==
    CASE e.k = "LiteralValueExpr" -> Ret(e.Val, NoErr)
      [] e.k = "UnaryOpExpr" -> unaryOf(e.Op, ExprValue(e.Operand))
      [] e.k = "TemplateExpr" /\ IsStringLiteral(e) -> Ret(e.Parts[1].Val, NoErr)
      [] e.k = "TemplateWrapExpr" -> ExprValue(e.Wrapped)
      [] e.k = "TupleConsExpr" -> tupleValue([i \in 1..Len(e.Exprs) |-> ExprValue(e.Exprs[i])])
      [] OTHER -> Ret(Nil, ErrExpression)

\* the string a template converts to, as the interface{} ConvertExpression returns
stringResult(r) == Ret(JStr(r.val), r.err)

\* the TupleConsExpr arm once the elements are converted: rs
listResult(rs) ==
    IF anyErr(rs) THEN Ret(Nil, firstErr(rs)) ELSE Ret(JList([i \in DOMAIN rs |-> rs[i].val]), NoErr)

\* the ObjectConsExpr arm once the item values are converted: rs; a key that
\* occurs again is assigned again
objectResult(items, rs) ==
    IF anyErr(rs) THEN Ret(Nil, firstErr(rs))
    ELSE Ret(JObj([key \in {convertKey(items[i]) : i \in DOMAIN items} |->
                    rs[CHOOSE i \in DOMAIN items :
                            /\ convertKey(items[i]) = key
                            /\ \A j \in DOMAIN items : convertKey(items[j]) = key => j <= i].val]),
             NoErr)

RECURSIVE ConvertExpression(_)

\* a traversal arm that wraps every traversal
wrapTraversal(expr) == Ret(JStr(wrapExpr(expr)), NoErr)

\* the ScopeTraversalExpr arm of ConvertExpression: a traversal of one step is
\* its root (Traversal[0] is always a TraverseRoot)
convertTraversal(expr) ==
    IF Len(expr.Traversal) = 1 THEN Ret(JStr(expr.Traversal[1]), NoErr)
    ELSE Ret(JStr(wrapExpr(expr)), NoErr)

\* the type switch of ConvertExpression
convertSyntax(expr) ==
    CASE expr.k = "LiteralValueExpr" -> Ret(expr.Val, NoErr)
      [] expr.k = "ScopeTraversalExpr" -> convertTraversal(expr)
      [] expr.k = "UnaryOpExpr" -> convertUnary(expr)
      [] expr.k = "TemplateExpr" -> stringResult(convertTemplate(expr))
      [] expr.k = "TemplateWrapExpr" -> ConvertExpression(expr.Wrapped)
      [] expr.k = "TupleConsExpr" ->
            listResult([i \in 1..Len(expr.Exprs) |-> ConvertExpression(expr.Exprs[i])])
      [] expr.k = "ObjectConsExpr" ->
            objectResult(expr.Items,
                         [i \in 1..Len(expr.Items) |-> ConvertExpression(expr.Items[i].ValueExpr)])
      [] OTHER -> Ret(JStr(wrapExpr(expr)), NoErr)

\* the Simplify attempt of ConvertExpression: the value v when it evaluated
simplified(v, expr) == IF v.err = NoErr THEN v ELSE convertSyntax(expr)

ConvertExpression(expr) ==
    IF Simplify THEN simplified(ExprValue(expr), expr) ELSE convertSyntax(expr)

(***************************************************************************)
(* package convert: bodies and blocks                                      *)
(* A body is [Attributes: name -> expression, Blocks: sequence of blocks];  *)
(* a block is [Type, Labels, Body].                                         *)
(***************************************************************************)
Body(attrs, blocks) == [Attributes |-> attrs, Blocks |-> blocks]
Block(type, labels, b) == [Type |-> type, Labels |-> labels, Body |-> b]

ErrUnableToConvert == "Unable to convert Block to JSON"
ErrInvalidHCL == "invalid HCL detected, cannot have blocks with and without labels"
ErrParse == "parse config"

\* ConvertBody that returns the map it was filling beside the error
partialResult(m, e) == Ret(JObj(m), e)

\* what ConvertBody returns when its loops end with the map m and the error e
bodyResult(m, e) == IF e # NoErr THEN Ret(Nil, e) ELSE Ret(JObj(m), NoErr)

RECURSIVE ConvertBody(_)
RECURSIVE walkLabels(_, _, _, _)
RECURSIVE convertBlocksFrom(_, _, _)

\* convertBlock that stores the value itself, not a list of it
storeUnwrapped(m, key, value) ==
    IF value.err # NoErr THEN Ret(m, value.err) ELSE Ret(Put(m, key, value.val), NoErr)

\* the end of convertBlock: the converted body, value, is stored under the last
\* key of the walk, wrapped in a list or appended to the list that is there
storeValue(m, key, value) ==
    IF value.err # NoErr THEN Ret(m, value.err)
    ELSE IF key \in DOMAIN m THEN
        IF IsList(m[key]) THEN Ret(Put(m, key, JList(Append(m[key].list, value.val))), NoErr)
        ELSE Ret(m, ErrInvalidHCL)
    ELSE Ret(Put(m, key, JList(<<value.val>>)), NoErr)

\* the map m after the walk went on below m[key] and ended as r
below(m, key, r) == Ret(Put(m, key, JObj(r.val)), r.err)

\* convertBlock from the point where the walk stands at map m with the pending
\* key: the remaining labels are walked, then the block's body is converted,
\* then the value is stored.  val is the map as the call leaves it, also when
\* it fails.
walkLabels(m, key, labels, block) ==
    IF labels # <<>> THEN
        IF key \in DOMAIN m /\ ~IsObj(m[key]) THEN Ret(m, ErrUnableToConvert)
        ELSE below(m, key, walkLabels(IF key \in DOMAIN m THEN m[key].obj ELSE EmptyMap,
                                      Head(labels), Tail(labels), block))
    ELSE storeValue(m, key, ConvertBody(block.Body))

convertBlock(block, m) == walkLabels(m, block.Type, block.Labels, block)

\* the block loop of ConvertBody after block i ended as r
afterBlock(blocks, i, r) == IF r.err # NoErr THEN r ELSE convertBlocksFrom(blocks, i + 1, r.val)

\* the block loop of ConvertBody from block i on
convertBlocksFrom(blocks, i, m) ==
    IF i > Len(blocks) THEN Ret(m, NoErr) ELSE afterBlock(blocks, i, convertBlock(blocks[i], m))

\* the attribute loop of ConvertBody once the expressions are converted: rs
\* holds what each returned.  When one fails the map is handed back as it was:
\* ConvertBody returns nil then, and nothing reads the map again.
assignAttributes(m, rs) ==
    IF \E key \in DOMAIN rs : rs[key].err # NoErr
    THEN Ret(m, rs[CHOOSE key \in DOMAIN rs : rs[key].err # NoErr].err)
    ELSE Ret([key \in DOMAIN m \cup DOMAIN rs |-> IF key \in DOMAIN rs THEN rs[key].val ELSE m[key]],
             NoErr)

convertAttributes(attrs, m) ==
    assignAttributes(m, [key \in DOMAIN attrs |-> ConvertExpression(attrs[key])])

attributesDone(r) == bodyResult(r.val, r.err)

\* ConvertBody after the block loop ended as r
blocksDone(b, r) ==
    IF r.err # NoErr THEN bodyResult(r.val, r.err)
    ELSE attributesDone(convertAttributes(b.Attributes, r.val))

ConvertBody(b) == blocksDone(b, convertBlocksFrom(b.Blocks, 1, EmptyMap))

(***************************************************************************)
(* The text the forward run prints and the reverse run reads.               *)
(* hclwrite renders a body as attribute lines "name = tokens" and blocks;   *)
(* hclsyntax.ParseConfig reads them back.  The grammar below is the part of *)
(* the native syntax that text over one letter, '.', '$', '%' and braces    *)
(* can spell: identifiers and attribute traversals, the empty object        *)
(* constructor, the modulo operator, and quoted templates with "${...}"     *)
(* interpolations and the "$${" and "%%{" escapes.  No template directive   *)
(* keyword (if, for, ...) can be spelled, so every unescaped "%{" of a       *)
(* template is a parse error.                                              *)
(***************************************************************************)
Letters == {"a", "b", "c", "d", "e", "f", "g", "h", "i", "j", "k", "l", "m", "n", "o",
            "p", "q", "r", "s", "t", "u", "v", "w", "x", "y", "z"}
Digits == {"0", "1", "2", "3", "4", "5", "6", "7", "8", "9"}

IsIdentifier(s) ==
    /\ Len(s) > 0
    /\ s[1] \in Letters \cup {"_"}
    /\ \A i \in 1..Len(s) : s[i] \in Letters \cup Digits \cup {"_", "-"}

\* the pieces of s between the occurrences of the character c
RECURSIVE SplitFrom(_, _, _, _)
SplitFrom(s, i, c, cur) ==
    IF i > Len(s) THEN <<cur>>
    ELSE IF s[i] = c THEN <<cur>> \o SplitFrom(s, i + 1, c, <<>>)
    ELSE SplitFrom(s, i + 1, c, Append(cur, s[i]))

Split(s, c) == SplitFrom(s, 1, c, <<>>)

KeywordTrue == <<"t", "r", "u", "e">>
KeywordFalse == <<"f", "a", "l", "s", "e">>
KeywordNull == <<"n", "u", "l", "l">>
LiteralKeywords == {KeywordTrue, KeywordFalse, KeywordNull}

\* Ident ('.' Ident)*, given its pieces between the dots
IsTraversal(names) == \A i \in 1..Len(names) : IsIdentifier(names[i])

\* (Ident | '{' '}') ('.' Ident)*, given its pieces between the dots
IsTerm(ps) ==
    /\ IsIdentifier(ps[1]) \/ ps[1] = <<"{", "}">>
    /\ \A i \in 2..Len(ps) : IsIdentifier(ps[i])

\* Term ('%' Term)*, given its pieces between the percent signs
IsOperation(ts) == \A i \in 1..Len(ts) : IsTerm(Split(ts[i], "."))

ParseFail == [ok |-> FALSE, expr |-> Nil]
Parsed(e) == [ok |-> TRUE, expr |-> e]

\* the expression with the source text s, whose pieces between the dots are names
expressionOf(s, names) ==
    IF IsTraversal(names) THEN
        IF names[1] \in LiteralKeywords THEN
            IF Len(names) > 1 THEN Parsed(OtherExpr(s, FALSE))
            ELSE Parsed(LiteralValueExpr(IF s = KeywordNull THEN JNull ELSE JBool(s = KeywordTrue)))
        ELSE Parsed(ScopeTraversalExpr(names, s, FALSE))
    ELSE IF s = <<"{", "}">> THEN Parsed(ObjectConsExpr(<<>>))
    ELSE IF IsOperation(Split(s, "%")) THEN Parsed(OtherExpr(s, FALSE))
    ELSE ParseFail

\* an expression of an attribute line or of an interpolation
ParseExpression(s) == expressionOf(s, Split(s, "."))

\* the index of the brace that closes the interpolation whose text starts at j
\* (0: none)
RECURSIVE FindClose(_, _, _)
FindClose(s, j, depth) ==
    IF j > Len(s) THEN 0
    ELSE IF s[j] = "{" THEN FindClose(s, j + 1, depth + 1)
    ELSE IF s[j] = "}" THEN (IF depth = 0 THEN j ELSE FindClose(s, j + 1, depth - 1))
    ELSE FindClose(s, j + 1, depth)

NoParts == [ok |-> FALSE, parts |-> <<>>]
litPart(lit) == IF lit = <<>> THEN <<>> ELSE <<LiteralValueExpr(JStr(lit))>>

RECURSIVE TemplateParts(_, _, _)

\* the parts of a template: the literal lit, the interpolated expression e, the
\* parts rest of what follows
joinParts(lit, e, rest) ==
    IF rest.ok THEN [ok |-> TRUE, parts |-> litPart(lit) \o <<e.expr>> \o rest.parts] ELSE NoParts

\* the interpolation that closes at j, parsed as e
afterInterpolation(s, j, lit, e) ==
    IF e.ok THEN joinParts(lit, e, TemplateParts(s, j + 1, <<>>)) ELSE NoParts

\* the interpolation that opens at i and closes at j (0: not closed)
interpolation(s, i, j, lit) ==
    IF j = 0 THEN NoParts ELSE afterInterpolation(s, j, lit, ParseExpression(SubSeq(s, i + 2, j - 1)))

\* the parts of a quoted template from position i on; lit is the literal text
\* scanned since the last part (consecutive literal tokens are melded)
TemplateParts(s, i, lit) ==
    IF i > Len(s) THEN [ok |-> TRUE, parts |-> litPart(lit)]
    ELSE IF s[i] \in {"$", "%"} /\ HasAt(s, i + 1, <<s[i], "{">>) THEN
        TemplateParts(s, i + 3, lit \o <<s[i], "{">>)
    ELSE IF s[i] = "%" /\ HasAt(s, i + 1, <<"{">>) THEN NoParts
    ELSE IF s[i] = "$" /\ HasAt(s, i + 1, <<"{">>) THEN interpolation(s, i, FindClose(s, i + 2, 0), lit)
    ELSE TemplateParts(s, i + 1, Append(lit, s[i]))

\* the template expression of the scanned parts r
templateOf(r) ==
    IF ~r.ok THEN ParseFail
    ELSE IF r.parts = <<>> THEN Parsed(TemplateExpr(<<LiteralValueExpr(JStr(<<>>))>>))
    ELSE IF Len(r.parts) = 1 /\ r.parts[1].k # "LiteralValueExpr" THEN
        Parsed(TemplateWrapExpr(r.parts[1]))
    ELSE Parsed(TemplateExpr(r.parts))

\* a quoted template whose text between the quotes is s
ParseTemplate(s) == templateOf(TemplateParts(s, 1, <<>>))

\* hclwrite's escaping of a string value between quotes: a template introducer
\* is doubled
RECURSIVE escapeQuotedStringLit(_)
escapeQuotedStringLit(s) ==
    IF s = <<>> THEN <<>>
    ELSE IF Head(s) \in {"$", "%"} /\ HasAt(s, 2, <<"{">>) THEN
        <<Head(s), Head(s)>> \o escapeQuotedStringLit(Tail(s))
    ELSE <<Head(s)>> \o escapeQuotedStringLit(Tail(s))

\* the keys of a map in one fixed order
RECURSIVE KeysInOrder(_)
KeysInOrder(S) ==
    IF S = {} THEN <<>>
    ELSE <<CHOOSE x \in S : TRUE>> \o KeysInOrder(S \ {CHOOSE x \in S : TRUE})

\* The order in which a range loop visits the keys of a Go map is not fixed:
\* a loop goes through the keys in the fixed order or in its reverse (all the
\* orders there are for a map of up to two keys).
MapOrders == {"up", "down"}

Reversed(s) == [i \in 1..Len(s) |-> s[Len(s) + 1 - i]]

RangeOrder(S, order) == IF order = "up" THEN KeysInOrder(S) ELSE Reversed(KeysInOrder(S))

\* a tuple constructor of the parsed elements rs
tupleOf(rs) ==
    IF \E i \in DOMAIN rs : ~rs[i].ok THEN ParseFail
    ELSE Parsed(TupleConsExpr([i \in DOMAIN rs |-> rs[i].expr]))

\* an object constructor of the parsed values rs, its items in the order ks
objectOf(ks, rs) ==
    IF \E key \in DOMAIN rs : ~rs[key].ok THEN ParseFail
    ELSE Parsed(ObjectConsExpr([i \in 1..Len(ks) |-> ObjectConsItem(ks[i], rs[ks[i]].expr)]))

\* hclwrite.TokensForValue read back by the parser
RECURSIVE ParseValue(_)
ParseValue(v) ==
    IF IsStr(v) THEN ParseTemplate(escapeQuotedStringLit(v.str))
    ELSE IF IsNum(v) /\ v.num < 0 THEN
        Parsed(UnaryOpExpr("-", LiteralValueExpr(JNum(0 - v.num)), <<"-", ToString(0 - v.num)>>, FALSE))
    ELSE IF IsList(v) THEN tupleOf([i \in 1..Len(v.list) |-> ParseValue(v.list[i])])
    ELSE IF IsObj(v) THEN
        objectOf(KeysInOrder(DOMAIN v.obj), [key \in DOMAIN v.obj |-> ParseValue(v.obj[key])])
    ELSE Parsed(LiteralValueExpr(v))

\* tokens of an attribute of a hclwrite body
RawTokens(type, bytes) == [Type |-> type, Bytes |-> bytes]
ValueTokens(v) == [Value |-> v]

ParseTokens(t) ==
    IF "Value" \in DOMAIN t THEN ParseValue(t.Value)
    ELSE IF t.Type = "TokenIdent" THEN ParseExpression(t.Bytes)
    ELSE ParseTemplate(SubSeq(t.Bytes, 2, Len(t.Bytes) - 1))

\* the body read from the printed body nb, its attributes parsed as as and the
\* bodies of its blocks as bs
nativeParsed(nb, as, bs) ==
    IF (\E name \in DOMAIN as : ~as[name].ok) \/ (\E i \in DOMAIN bs : ~bs[i].ok)
    THEN [ok |-> FALSE, body |-> Nil]
    ELSE [ok |-> TRUE,
          body |-> Body([name \in DOMAIN as |-> as[name].expr],
                        [i \in DOMAIN bs |-> Block(nb.Blocks[i].Type, nb.Blocks[i].Labels, bs[i].body)])]

\* nativeFile.Bytes() read by hclsyntax.ParseConfig
RECURSIVE ParseNative(_)
ParseNative(nb) ==
    nativeParsed(nb, [name \in DOMAIN nb.Attributes |-> ParseTokens(nb.Attributes[name])],
                 [i \in 1..Len(nb.Blocks) |-> ParseNative(nb.Blocks[i].Body)])

(***************************************************************************)
(* package main: the attribute emitter                                     *)
(***************************************************************************)
NativeBody(attrs, blocks) == [Attributes |-> attrs, Blocks |-> blocks]
EmptyNative == NativeBody(EmptyMap, <<>>)
NativeBlock(type, labels, nb) == [Type |-> type, Labels |-> labels, Body |-> nb]

SetAttributeRaw(nb, name, tokens) == [nb EXCEPT !.Attributes = Put(@, name, tokens)]
SetAttributeValue(nb, name, val) == [nb EXCEPT !.Attributes = Put(@, name, ValueTokens(val))]
AppendBlock(nb, block) == [nb EXCEPT !.Blocks = Append(@, block)]

UpperLetters == {"A", "B", "C", "D", "E", "F", "G", "H", "I", "J", "K", "L", "M", "N", "O",
                 "P", "Q", "R", "S", "T", "U", "V", "W", "X", "Y", "Z"}

isSimpleReference(expr) ==
    /\ \A i \in 1..Len(expr) : expr[i] \in Letters \cup UpperLetters \cup Digits \cup {".", "_", "-"}
    /\ Len(expr) > 0

\* an unwrapping of every string between "${" and "}"
unwrapAny(str) ==
    IF Len(str) > 3 /\ SubSeq(str, 1, 2) = DollarBrace /\ str[Len(str)] = "}"
    THEN SubSeq(str, 3, Len(str) - 1)
    ELSE <<>>

unwrapInterpolationExpression(str) ==
    IF Len(str) > 3 /\ SubSeq(str, 1, 2) = DollarBrace /\ str[Len(str)] = "}"
       /\ isSimpleReference(SubSeq(str, 3, Len(str) - 1))
    THEN SubSeq(str, 3, Len(str) - 1)
    ELSE <<>>

unquotedTypes ==
    { <<"s", "t", "r", "i", "n", "g">>, <<"n", "u", "m", "b", "e", "r">>, <<"b", "o", "o", "l">>,
      <<"l", "i", "s", "t">>, <<"s", "e", "t">>, <<"m", "a", "p">>,
      <<"o", "b", "j", "e", "c", "t">>, <<"t", "u", "p", "l", "e">>, <<"a", "n", "y">> }

\* a keyword table that misses "any"
isListedType(str) == str \in unquotedTypes \ {<<"a", "n", "y">>}

isUnquotedType(str) == str \in unquotedTypes

\* the string arm of setAttributeWithExpressionHandling; expr is what
\* unwrapInterpolationExpression made of the string
setString(nb, name, val, expr) ==
    IF name = "type" /\ isUnquotedType(val.str) THEN
        SetAttributeRaw(nb, name, RawTokens("TokenIdent", val.str))
    ELSE IF expr # <<>> THEN SetAttributeRaw(nb, name, RawTokens("TokenIdent", expr))
    ELSE IF Contains(val.str, DollarBrace) THEN
        SetAttributeRaw(nb, name, RawTokens("TokenQuotedLit", <<"\"">> \o val.str \o <<"\"">>))
    ELSE SetAttributeValue(nb, name, val)

setAttributeWithExpressionHandling(nb, name, val) ==
    IF IsStr(val) THEN setString(nb, name, val, unwrapInterpolationExpression(val.str))
    ELSE SetAttributeValue(nb, name, val)

(***************************************************************************)
(* package main: the block classifier, the label extractor and the block    *)
(* synthesizer                                                             *)
(***************************************************************************)
hclBlockTypes ==
    {"resource", "data", "provider", "output", "locals", "module", "terraform", "attribute",
     "global_secondary_index", "local_secondary_index", "backup_policy",
     "point_in_time_recovery", "server_side_encryption", "stream_specification", "ttl"}

\* the only key of a one-key map, and its value
OnlyKey(m) == CHOOSE key \in DOMAIN m : TRUE
Only(m) == m[OnlyKey(m)]
Size(m) == Cardinality(DOMAIN m)

\* a nested test that stops at the one-element list
isOneElementList(value) == IsList(value) /\ Len(value.list) = 1

\* the nested test of isHCLBlockArray on the value of the only key of the first
\* element
looksLabeled(value) ==
    /\ IsList(value)
    /\ Len(value.list) = 1
    /\ IsObj(value.list[1])
    /\ Size(value.list[1].obj) = 1

\* a classifier that takes every list of objects for block data
anyObjectList(name, val, fileType) ==
    IsList(val) /\ Len(val.list) > 0 /\ IsObj(val.list[1])

isHCLBlockArray(name, val, fileType) ==
    IF ~IsList(val) THEN FALSE
    ELSE IF Len(val.list) = 0 THEN FALSE
    ELSE IF name = "variable" THEN fileType = "terraform"
    ELSE IF name \in hclBlockTypes THEN TRUE
    ELSE IF ~IsObj(val.list[1]) THEN FALSE
    ELSE Size(val.list[1].obj) = 1 /\ looksLabeled(Only(val.list[1].obj))

LabelsContent(labels, content) == [labels |-> labels, content |-> content]

\* extractBlockLabelsAndContent below a first label key, on the one-key object
\* {innerKey: innerValue}
secondLabel(key, innerKey, innerValue) ==
    IF IsList(innerValue) /\ Len(innerValue.list) = 1 /\ IsObj(innerValue.list[1])
    THEN LabelsContent(<<key, innerKey>>, innerValue.list[1].obj)
    ELSE LabelsContent(<<key>>, Put(EmptyMap, innerKey, innerValue))

\* extractBlockLabelsAndContent on the one-key object {key: value}
firstLabel(key, value) ==
    IF ~IsList(value) THEN LabelsContent(<<>>, Put(EmptyMap, key, value))
    ELSE IF Len(value.list) # 1 THEN LabelsContent(<<>>, Put(EmptyMap, key, value))
    ELSE IF ~IsObj(value.list[1]) THEN LabelsContent(<<>>, EmptyMap)
    ELSE IF Size(value.list[1].obj) # 1 THEN LabelsContent(<<key>>, value.list[1].obj)
    ELSE secondLabel(key, OnlyKey(value.list[1].obj), Only(value.list[1].obj))

extractBlockLabelsAndContent(blockInstance) ==
    IF Size(blockInstance.obj) # 1 THEN LabelsContent(<<>>, blockInstance.obj)
    ELSE firstLabel(OnlyKey(blockInstance.obj), Only(blockInstance.obj))

ErrNotBlockArray == "not a block array"
ErrInstanceNotObject == "block instance is not an object"
ErrNotObject == "not an object"
ErrExpectedObject == "expected object in array for block"
ErrExpectedSingle == "expected single element array for block"
ErrUnexpectedType == "unexpected value type for block"

\* a caller that drops the error of the conversion and sets no attribute
ignoreError(r, name, val) == r.val

\* "if err := convert...(name, val, body); err != nil { setAttribute... }": r is
\* what the conversion returned and the body as it left it
orAttribute(r, name, val) ==
    IF r.err # NoErr THEN setAttributeWithExpressionHandling(r.val, name, val) ELSE r.val

RECURSIVE convertJSONBlockArray(_, _, _, _)
RECURSIVE blockContentAttrs(_, _, _, _)
RECURSIVE blockInstancesFrom(_, _, _, _, _)

\* one iteration of the loop over blockContent in convertJSONBlockArray
blockAttr(attrName, attrVal, nb, order) ==
    IF IsList(attrVal)
    THEN orAttribute(convertJSONBlockArray(attrName, attrVal, nb, order), attrName, attrVal)
    ELSE setAttributeWithExpressionHandling(nb, attrName, attrVal)

\* the loop over blockContent in convertJSONBlockArray, for the names in keys
blockContentAttrs(content, keys, nb, order) ==
    IF keys = <<>> THEN nb
    ELSE blockContentAttrs(content, Tail(keys),
                           blockAttr(Head(keys), content[Head(keys)], nb, order), order)

\* the block of one instance, of the labels and content lc
instanceBlock(blockType, lc, order) ==
    NativeBlock(blockType, lc.labels,
                blockContentAttrs(lc.content, RangeOrder(DOMAIN lc.content, order), EmptyNative, order))

\* the loop over the block instances of convertJSONBlockArray from instance i on
blockInstancesFrom(blockType, instances, i, nb, order) ==
    IF i > Len(instances) THEN Ret(nb, NoErr)
    ELSE IF ~IsObj(instances[i]) THEN Ret(nb, ErrInstanceNotObject)
    ELSE blockInstancesFrom(blockType, instances, i + 1,
            AppendBlock(nb, instanceBlock(blockType, extractBlockLabelsAndContent(instances[i]), order)),
            order)

convertJSONBlockArray(blockType, val, nb, order) ==
    IF ~IsList(val) THEN Ret(nb, ErrNotBlockArray)
    ELSE blockInstancesFrom(blockType, val.list, 1, nb, order)

objectBlockTypes ==
    {"variable", "output", "locals", "provider", "resource", "data", "module", "terraform"}

\* a selection of objects by the names that make a list block data
likeLists(name, val, fileType) ==
    IsObj(val) /\ fileType = "terraform" /\ name \in hclBlockTypes \cup {"variable"}

shouldConvertObjectToBlocks(name, val, fileType) ==
    IsObj(val) /\ fileType = "terraform" /\ name \in objectBlockTypes

\* an attribute loop that writes every field as a plain value
quotedAttr(attrName, attrVal, nb, fileType, order) == SetAttributeValue(nb, attrName, attrVal)

\* one iteration of the attribute loop of the list arm of
\* convertObjectToBlocksRecursive
objectAttr(attrName, attrVal, nb, fileType, order) ==
    IF IsList(attrVal) /\ isHCLBlockArray(attrName, attrVal, fileType)
    THEN orAttribute(convertJSONBlockArray(attrName, attrVal, nb, order), attrName, attrVal)
    ELSE setAttributeWithExpressionHandling(nb, attrName, attrVal)

\* the attribute loop of the list arm, for the names in keys
RECURSIVE objectContentAttrs(_, _, _, _, _)
objectContentAttrs(content, keys, nb, fileType, order) ==
    IF keys = <<>> THEN nb
    ELSE objectContentAttrs(content, Tail(keys),
                            objectAttr(Head(keys), content[Head(keys)], nb, fileType, order),
                            fileType, order)

\* the attribute loop of the direct-object arm, for the names in keys
RECURSIVE plainAttrs(_, _, _)
plainAttrs(content, keys, nb) ==
    IF keys = <<>> THEN nb
    ELSE plainAttrs(content, Tail(keys),
                    setAttributeWithExpressionHandling(nb, Head(keys), content[Head(keys)]))

RECURSIVE convertObjectToBlocksRecursive(_, _, _, _, _, _)
RECURSIVE nestedLabelsFrom(_, _, _, _, _, _, _)

\* the nesting loop after one nested value ended as r
afterNested(blockType, labels, valueMap, keys, r, fileType, order) ==
    IF r.err # NoErr THEN r
    ELSE nestedLabelsFrom(blockType, labels, valueMap, Tail(keys), r.val, fileType, order)

\* the loop over valueMap of the nesting arm (and of convertObjectToBlocks, with
\* no labels yet), for the names in keys
nestedLabelsFrom(blockType, labels, valueMap, keys, nb, fileType, order) ==
    IF keys = <<>> THEN Ret(nb, NoErr)
    ELSE afterNested(blockType, labels, valueMap, keys,
                     convertObjectToBlocksRecursive(blockType, Append(labels, Head(keys)),
                                                    valueMap[Head(keys)], nb, fileType, order),
                     fileType, order)

convertObjectToBlocksRecursive(blockType, labels, val, nb, fileType, order) ==
    IF IsList(val) THEN
        IF Len(val.list) # 1 THEN Ret(nb, ErrExpectedSingle)
        ELSE IF ~IsObj(val.list[1]) THEN Ret(nb, ErrExpectedObject)
        ELSE Ret(AppendBlock(nb, NativeBlock(blockType, labels,
                    objectContentAttrs(val.list[1].obj, RangeOrder(DOMAIN val.list[1].obj, order),
                                       EmptyNative, fileType, order))), NoErr)
    ELSE IF IsObj(val) THEN
        IF (\A key \in DOMAIN val.obj : IsList(val.obj[key])) /\ Size(val.obj) > 0 THEN
            nestedLabelsFrom(blockType, labels, val.obj, RangeOrder(DOMAIN val.obj, order), nb, fileType,
                             order)
        ELSE Ret(AppendBlock(nb, NativeBlock(blockType, labels,
                    plainAttrs(val.obj, KeysInOrder(DOMAIN val.obj), EmptyNative))), NoErr)
    ELSE Ret(nb, ErrUnexpectedType)

convertObjectToBlocks(blockType, val, nb, fileType, order) ==
    IF ~IsObj(val) THEN Ret(nb, ErrNotObject)
    ELSE nestedLabelsFrom(blockType, <<>>, val.obj, RangeOrder(DOMAIN val.obj, order), nb, fileType,
                          order)

\* one iteration of the range loop of convertToNativeHCL over the attributes
convertAttribute(name, val, nb, fileType, order) ==
    IF IsList(val) /\ isHCLBlockArray(name, val, fileType) THEN
        orAttribute(convertJSONBlockArray(name, val, nb, order), name, val)
    ELSE IF IsObj(val) /\ shouldConvertObjectToBlocks(name, val, fileType) THEN
        orAttribute(convertObjectToBlocks(name, val, nb, fileType, order), name, val)
    ELSE setAttributeWithExpressionHandling(nb, name, val)

\* a detection that knows the .tf extension only
terraformOnly(ext) == "terraform"

\* getFileType, on the extension of the -output path
getFileType(ext) ==
    CASE ext = ".tf" -> "terraform"
      [] ext = ".tfvars" -> "tfvars"
      [] OTHER -> "terraform"

(***************************************************************************)
(* The processes.  A run of the program reads stdin, converts and prints;   *)
(* Pipe starts the next run, of the other direction, on what was printed.   *)
(***************************************************************************)
NoOutput == [kind |-> "none"]
HCLText(b) == [kind |-> "hcl", body |-> b]            \* native syntax that parses to b
BadHCLText == [kind |-> "badhcl"]                     \* native syntax with a syntax error
NativeText(nb) == [kind |-> "native", body |-> nb]    \* the bytes of a hclwrite file
JSONText(doc) == [kind |-> "json", doc |-> doc]       \* a JSON object
DupJSONText(doc) == [kind |-> "jsondup", doc |-> doc] \* a JSON object repeating a property name
BadJSONText == [kind |-> "badjson"]                   \* not JSON

Flags(blocks, nested, ext) ==
    [treatArraysAsBlocks |-> blocks, keepArraysNested |-> nested, outputExt |-> ext]

ErrBothFlags == "Cannot use both --treat-arrays-as-blocks and --keep-arrays-nested flags together"
ErrParseJSON == "unable to parse JSON"
ErrContent == "unable to get content"

\* a function that was not called, and the returns of a run that called none
NotCalled == [none |-> TRUE]
NoReturn == [ConvertBody |-> NotCalled, ConvertFile |-> NotCalled, Bytes |-> NotCalled]

\* ConvertFile, File and Bytes hand the object on, or nil with the error wrapped
fileResult(r) == IF r.err # NoErr THEN Ret(Nil, r.err) ELSE r

\* what ConvertBody, ConvertFile and Bytes return when ConvertBody returns r
Returned(r) ==
    [ConvertBody |-> r.val, ConvertFile |-> fileResult(r).val, Bytes |-> fileResult(fileResult(r)).val]

hclsyntaxParseConfig(text) ==
    CASE text.kind = "hcl" -> [ok |-> TRUE, body |-> text.body]
      [] text.kind = "native" -> ParseNative(text.body)
      [] OTHER -> [ok |-> FALSE, body |-> Nil]

Main ==
    /\ pc = "main"
    /\ IF flags.treatArraysAsBlocks /\ flags.keepArraysNested THEN
            /\ err' = ErrBothFlags
            /\ pc' = "exit"
            /\ UNCHANGED targetFileType
       ELSE /\ targetFileType' =
                    IF flags.treatArraysAsBlocks THEN "terraform"
                    ELSE IF flags.keepArraysNested THEN "tfvars"
                    ELSE IF flags.outputExt # "" THEN getFileType(flags.outputExt)
                    ELSE "terraform"
            /\ pc' = IF reverse THEN "toJSON" ELSE "toHCL"
            /\ UNCHANGED err
    /\ UNCHANGED <<reverse, flags, stdin, body, idx, todo, out, native, ret, stdout, orig, runs>>

\* convert.Bytes after the parse returned p
configParsed(p) ==
    IF p.ok THEN /\ body' = p.body
                 /\ out' = EmptyMap
                 /\ idx' = 0
                 /\ pc' = "blocks"
                 /\ UNCHANGED <<err, ret>>
    ELSE /\ err' = ErrParse
         /\ ret' = [ret EXCEPT !.Bytes = Nil]
         /\ pc' = "exit"
         /\ UNCHANGED <<body, out, idx>>

\* toJSON up to the parse in convert.Bytes
ParseHCL ==
    /\ pc = "toJSON"
    /\ configParsed(hclsyntaxParseConfig(stdin))
    /\ UNCHANGED <<reverse, flags, targetFileType, stdin, todo, native, stdout, orig, runs>>

\* the block loop of ConvertBody after convertBlock returned r
blockConverted(r) ==
    /\ out' = r.val
    /\ idx' = idx + 1
    /\ IF r.err # NoErr THEN /\ err' = r.err
                             /\ ret' = Returned(bodyResult(r.val, r.err))
                             /\ pc' = "exit"
       ELSE UNCHANGED <<err, ret, pc>>

\* one iteration of the block loop of ConvertBody on the file's body
ConvertBlock ==
    /\ pc = "blocks"
    /\ idx < Len(body.Blocks)
    /\ blockConverted(convertBlock(body.Blocks[idx + 1], out))
    /\ UNCHANGED <<reverse, flags, targetFileType, stdin, body, todo, native, stdout, orig, runs>>

\* ConvertBody after the attribute loop ended as r, and the returns up to toJSON
attributesConverted(r) ==
    /\ out' = r.val
    /\ ret' = Returned(bodyResult(r.val, r.err))
    /\ err' = r.err
    /\ pc' = IF r.err # NoErr THEN "exit" ELSE "marshal"

\* the attribute loop of ConvertBody on the file's body
ConvertAttributes ==
    /\ pc = "blocks"
    /\ idx = Len(body.Blocks)
    /\ attributesConverted(convertAttributes(body.Attributes, out))
    /\ UNCHANGED <<reverse, flags, targetFileType, stdin, body, idx, todo, native, stdout, orig, runs>>

\* json.Marshal in File, then the pretty print of toJSON
PrintJSON ==
    /\ pc = "marshal"
    /\ stdout' = JSONText(ret.Bytes.obj)
    /\ pc' = "done"
    /\ UNCHANGED <<reverse, flags, targetFileType, stdin, body, idx, todo, out, native, err, ret, orig, runs>>

\* toHCL up to JustAttributes in convertToNativeHCL
ParseJSON ==
    /\ pc = "toHCL"
    /\ IF stdin.kind = "json" THEN
            /\ body' = stdin.doc
            /\ todo' = DOMAIN stdin.doc
            /\ native' = EmptyNative
            /\ pc' = "attrs"
            /\ UNCHANGED err
       ELSE IF stdin.kind = "jsondup" THEN
            /\ body' = stdin.doc
            /\ native' = EmptyNative
            /\ pc' = "partial"
            /\ UNCHANGED <<err, todo>>
       ELSE /\ err' = ErrParseJSON
            /\ pc' = "exit"
            /\ UNCHANGED <<body, todo, native>>
    /\ UNCHANGED <<reverse, flags, targetFileType, stdin, idx, out, ret, stdout, orig, runs>>

\* a range loop that visits a name again
visitAgain(names, name) == names

\* the names a range loop over a map has left after it visited name: each key
\* is visited once
leftToVisit(names, name) == names \ {name}

\* one iteration of the range loop over attrs
ConvertAttribute ==
    /\ pc = "attrs"
    /\ \E name \in todo, order \in MapOrders :
        /\ native' = convertAttribute(name, body[name], native, targetFileType, order)
        /\ todo' = leftToVisit(todo, name)
    /\ UNCHANGED <<reverse, flags, targetFileType, stdin, pc, body, idx, out, err, ret, stdout, orig, runs>>

\* JustAttributes reported errors: PartialContent with the empty schema finds
\* no attribute and no block, or fails
PartialContent ==
    /\ pc = "partial"
    /\ \E ok \in BOOLEAN :
        IF ok THEN /\ todo' = {}
                   /\ pc' = "attrs"
                   /\ UNCHANGED err
        ELSE /\ err' = ErrContent
             /\ pc' = "exit"
             /\ UNCHANGED todo
    /\ UNCHANGED <<reverse, flags, targetFileType, stdin, body, idx, out, native, ret, stdout, orig, runs>>

\* fmt.Print(string(nativeFile.Bytes()))
PrintHCL ==
    /\ pc = "attrs"
    /\ todo = {}
    /\ stdout' = NativeText(native)
    /\ pc' = "done"
    /\ UNCHANGED <<reverse, flags, targetFileType, stdin, body, idx, todo, out, native, err, ret, orig, runs>>

\* the next run: the other direction, on the text the last run printed
Pipe ==
    /\ pc = "done"
    /\ runs > 0
    /\ runs' = runs - 1
    /\ reverse' = ~reverse
    /\ stdin' = stdout
    /\ stdout' = NoOutput
    /\ pc' = "main"
    /\ body' = Nil
    /\ idx' = 0
    /\ todo' = {}
    /\ out' = EmptyMap
    /\ native' = EmptyNative
    /\ ret' = NoReturn
    /\ UNCHANGED <<flags, targetFileType, err, orig>>

Start(r, f, text, n) ==
    /\ reverse = r
    /\ flags = f
    /\ targetFileType = ""
    /\ stdin = text
    /\ pc = "main"
    /\ body = Nil
    /\ idx = 0
    /\ todo = {}
    /\ out = EmptyMap
    /\ native = EmptyNative
    /\ err = NoErr
    /\ ret = NoReturn
    /\ stdout = NoOutput
    /\ orig = text
    /\ runs = n

(***************************************************************************)
(* Inputs                                                                  *)
(***************************************************************************)
MaxBlocks == 2      \* blocks of an input body
MaxLabels == 2      \* labels of a block

Types == {"t", "u"}
Labels == {"a", "b"}

\* sequences over S of length at most n
RECURSIVE SeqsUpTo(_, _)
SeqsUpTo(S, n) ==
    IF n = 0 THEN {<<>>}
    ELSE SeqsUpTo(S, n - 1) \cup {Append(q, x) : q \in SeqsUpTo(S, n - 1), x \in S}

One == LiteralValueExpr(JNum(1))
RefA == ScopeTraversalExpr(<< <<"a">> >>, <<"a">>, FALSE)
RefAB == ScopeTraversalExpr(<< <<"a">>, <<"b">> >>, <<"a", ".", "b">>, FALSE)
MinusTrue == UnaryOpExpr("-", LiteralValueExpr(JBool(TRUE)), <<"-", "t", "r", "u", "e">>, FALSE)
NotOne == UnaryOpExpr("!", LiteralValueExpr(JNum(1)), <<"!", "1">>, FALSE)
CallA == OtherExpr(<<"f", "(", "a">>, TRUE)

\* an expression of every node kind ConvertExpression and convertStringPart
\* tell apart
Exprs ==
    { One, LiteralValueExpr(JBool(FALSE)), LiteralValueExpr(JNull), RefA, RefAB,
      UnaryOpExpr("-", One, <<"-", "1">>, FALSE),
      UnaryOpExpr("!", LiteralValueExpr(JBool(TRUE)), <<"!", "t", "r", "u", "e">>, FALSE),
      UnaryOpExpr("-", LiteralValueExpr(JNull), <<"-", "n", "u", "l", "l">>, FALSE),
      UnaryOpExpr("!", RefA, <<"!", "a">>, FALSE),
      MinusTrue, NotOne, CallA,
      TemplateExpr(<<LiteralValueExpr(JStr(<<"a", "$", "{">>))>>),
      TemplateExpr(<<LiteralValueExpr(JStr(<<"a">>)), RefAB, MinusTrue>>),
      TemplateExpr(<<ConditionalExpr(RefA, LiteralValueExpr(JStr(<<"a">>)),
                                     LiteralValueExpr(JStr(<<>>)), <<"a">>, FALSE)>>),
      TemplateExpr(<<TemplateJoinExpr(<<>>, <<"a">>, CallA, TemplateWrapExpr(RefA))>>),
      TemplateWrapExpr(RefAB),
      TupleConsExpr(<<One, RefAB>>), TupleConsExpr(<<One, NotOne>>),
      ObjectConsExpr(<<ObjectConsItem("x", One), ObjectConsItem("x", RefA)>>),
      ObjectConsExpr(<<ObjectConsItem("x", TupleConsExpr(<<MinusTrue>>))>>) }

NoAttrs == EmptyMap
EmptyBody == Body(NoAttrs, <<>>)

InnerBodies ==
    { EmptyBody, Body([x \in {"x"} |-> One], <<>>), Body([x \in {"x"} |-> MinusTrue], <<>>) }

\* empty blocks of every type and label sequence
Blocks ==
    {Block(type, labels, EmptyBody) : type \in Types, labels \in SeqsUpTo(Labels, MaxLabels)}

\* bodies of blocks, alone or beside an attribute that has the name of a block type
BlockBodies ==
    {Body(attrs, blocks) : attrs \in {NoAttrs, [x \in {"t"} |-> One]},
                           blocks \in SeqsUpTo(Blocks, MaxBlocks)}

\* blocks of one type that hold something, and the bodies of one or two of them
FilledBlocks ==
    {Block("t", labels, b) : labels \in SeqsUpTo(Labels, MaxLabels), b \in InnerBodies}

FilledBodies ==
    {Body(NoAttrs, <<b1>>) : b1 \in FilledBlocks}
    \cup {Body(NoAttrs, <<b1, b2>>) : b1 \in FilledBlocks, b2 \in FilledBlocks}

\* bodies with a block inside a block
NestedBodies ==
    {Body(NoAttrs, <<Block(type, labels, Body(NoAttrs, <<Block("u", <<>>, b)>>))>>) :
        type \in Types, labels \in SeqsUpTo(Labels, MaxLabels), b \in InnerBodies}

\* bodies of one attribute
ExprBodies == {Body([x \in {"x"} |-> e], <<>>) : e \in Exprs}

Bodies == BlockBodies \cup FilledBodies \cup NestedBodies \cup ExprBodies

DefaultFlags == Flags(FALSE, FALSE, "")
AllFlags == {Flags(b, n, ext) : b \in BOOLEAN, n \in BOOLEAN, ext \in {"", ".tf", ".tfvars", ".json"}}

SmallValues ==
    { JStr(<<"a">>), JStr(<<"$", "{", "a", ".", "b", "}">>), JNum(1), JNull,
      JList(<<JObj([x \in {"a"} |-> JList(<<JObj([y \in {"b"} |-> JNum(1)])>>)])>>),
      JObj([x \in {"a"} |-> JList(<<JObj(EmptyMap)>>)]) }

SmallDocs ==
    {EmptyMap} \cup {[x \in {key} |-> v] : key \in {"x", "variable"}, v \in SmallValues}
    \cup {[x \in {"x", "variable"} |-> IF x = "x" THEN v ELSE w] : v \in SmallValues, w \in SmallValues}

MaxStrLen == 3      \* characters of a string value of the top level
MaxLeafLen == 2     \* characters of a string value inside a list or an object
MaxRefLen == 3      \* characters of r in a string value "${r}"

Chars == {"a", ".", "$", "{", "}", "%"}
RefChars == {"a", "."}

Interpolated(r) == DollarBrace \o r \o <<"}">>

Scalars == {JNull, JBool(TRUE), JNum(1), JNum(0 - 1)}

TopValues ==
    Scalars
    \cup {JStr(str) : str \in SeqsUpTo(Chars, MaxStrLen) \cup unquotedTypes}
    \cup {JStr(Interpolated(r)) : r \in SeqsUpTo(RefChars, MaxRefLen) \ {<<>>}}

Leaves ==
    Scalars
    \cup {JStr(str) : str \in SeqsUpTo(Chars, MaxLeafLen)}
    \cup {JStr(Interpolated(<<"a", ".", "a">>)), JStr(<<"a", "n", "y">>)}

NestedValues ==
    {JList(<<>>), JObj(EmptyMap), JList(<<JNum(1), JStr(<<"a">>)>>)}
    \cup {JList(<<v>>) : v \in Leaves}
    \cup {JObj([y \in {"y"} |-> v]) : v \in Leaves}
    \cup {JList(<<JObj([y \in {"y"} |-> v])>>) : v \in Leaves}

\* values of the shape the block classifier looks for
BlockValues ==
    { JList(<<JObj([y \in {"a"} |-> JList(<<JObj([z \in {"b"} |-> JNum(1)])>>)])>>),
      JList(<<JObj([y \in {"y"} |-> JStr(<<"a">>)])>>) }

RoundTripDocs ==
    {[key \in {"x"} |-> v] : v \in TopValues \cup NestedValues \cup BlockValues}
    \cup {[key \in {"type"} |-> JStr(str)] : str \in unquotedTypes \cup {<<"a">>, Interpolated(<<"a", ".", "a">>)}}
    \cup {[key \in {"x", "type"} |-> IF key = "x" THEN v ELSE JStr(<<"m", "a", "p">>)] :
            v \in {JNum(1), JStr(<<"$", "{">>), JList(<<JStr(<<"a">>)>>)}}
    \cup {[key \in {name} |-> v] : name \in {"resource", "variable"}, v \in BlockValues}

NestPreferring == Flags(FALSE, TRUE, "")
BlockPreferring == Flags(TRUE, FALSE, "")

\* what a block of the label round trip holds
ContentExprs ==
    { One, LiteralValueExpr(JNull), LiteralValueExpr(JBool(TRUE)),
      UnaryOpExpr("-", One, <<"-", "1">>, FALSE), RefA, RefAB, CallA,
      TemplateExpr(<<LiteralValueExpr(JStr(<<"a">>))>>),
      TemplateExpr(<<LiteralValueExpr(JStr(<<"$", "{">>))>>),
      TemplateExpr(<<LiteralValueExpr(JStr(<<"%", "{">>))>>),
      TemplateExpr(<<LiteralValueExpr(JStr(<<"a">>)), RefAB>>),
      TupleConsExpr(<<One>>), TupleConsExpr(<<ObjectConsExpr(<<>>)>>),
      ObjectConsExpr(<<ObjectConsItem("y", One)>>) }

Contents ==
    {EmptyBody}
    \cup {Body([x \in {"x"} |-> e], <<>>) : e \in ContentExprs}
    \cup {Body([x \in {"x", "type"} |-> IF x = "x" THEN e ELSE ScopeTraversalExpr(<< <<"a", "n", "y">> >>, <<"a", "n", "y">>, FALSE)], <<>>) :
            e \in {One, RefAB}}
    \cup {Body(NoAttrs, <<Block("u", <<>>, EmptyBody)>>)}

LabelTypes == {"resource", "variable", "t"}

\* one block, of up to MaxLabels labels or of the three labels a, b, a
LabelBodies ==
    {Body(NoAttrs, <<Block(type, labels, content)>>) :
        type \in LabelTypes, labels \in SeqsUpTo(Labels, MaxLabels) \cup {<<"a", "b", "a">>},
        content \in Contents}

MaxNest == 3        \* levels of {label: [ ... ]} around the content of a block instance

\* what a block instance ends in: an object of no, one or two keys, or a number
Fields == {JObj(EmptyMap), JObj([x \in {"x"} |-> JNum(1)]),
           JObj([x \in {"x", "type"} |-> IF x = "x" THEN JNum(1) ELSE JStr(<<"a", "n", "y">>)])}

\* {label: [v]} for the values v of V
Wrapped(V) == {JObj([l \in {label} |-> JList(<<v>>)]) : label \in Labels, v \in V}

RECURSIVE Nest(_)
Nest(n) == IF n = 0 THEN Fields \cup {JNum(1)} ELSE Nest(n - 1) \cup Wrapped(Nest(n - 1))

Instances == Nest(MaxNest)

\* elements that follow the first element of a list
Seconds == {JNum(1), JObj([x \in {"x"} |-> JNum(1)]),
            JObj([l \in {"a"} |-> JList(<<JObj([m \in {"b"} |-> JNum(1)])>>)])}

ListValues ==
    {JList(<<>>)} \cup {JList(<<i>>) : i \in Instances}
    \cup {JList(<<i, j>>) : i \in Instances, j \in Seconds}

\* what a name of the object form {name: ...} maps to
Named ==
    {JNum(1), JList(<<>>), JList(<<JNum(1)>>), JList(<<JObj(EmptyMap), JObj(EmptyMap)>>),
     JObj([x \in {"x"} |-> JNum(1)]),
     JObj([l \in {"b"} |-> JList(<<JObj([x \in {"x"} |-> JNum(1)])>>)])}
    \cup {JList(<<f>>) : f \in Fields}

ObjectValues ==
    {JObj(EmptyMap)}
    \cup {JObj([l \in {"a"} |-> v]) : v \in Named}
    \cup {JObj([l \in {"a", "b"} |-> IF l = "a" THEN v ELSE w]) : v \in Named, w \in Named}

\* the variable name, a block type of both tables, a block type of the list
\* table only, and a name of no table
Names == {"variable", "resource", "ttl", "subnets"}

\* list values of a content field of a block: empty, of a number, of one plain
\* record, of one labelled instance
FieldLists ==
    {JList(<<>>), JList(<<JNum(1)>>), JList(<<JObj([x \in {"p", "q"} |-> JNum(1)])>>),
     JList(<<JObj([l \in {"a"} |-> JList(<<JObj([x \in {"b"} |-> JNum(1)])>>)])>>)}

\* the content of a block: a number and a list under a plain or a well-known name
ListContents ==
    {[k \in {"x", name} |-> IF k = "x" THEN JNum(1) ELSE v] : name \in {"subnets", "ttl"}, v \in FieldLists}

\* a block of that content in the list form and in the object form
ContentDocs ==
    {[key \in {"resource"} |-> JList(<<JObj(c)>>)] : c \in ListContents}
    \cup {[key \in {"resource"} |-> JObj([l \in {"a"} |-> JList(<<JObj(c)>>)])] : c \in ListContents}

\* strings the attribute emitter tells apart
EmitterStrings ==
    { <<"s", "t", "r", "i", "n", "g">>, <<"a", "n", "y">>, <<"a">>, <<>>, <<"\"">>,
      <<"$", "{", "a", ".", "b", "}">>, <<"$", "{", "a", "_", "-", "1", "}">>, <<"$", "{", "A", "}">>,
      <<"$", "{", "}">>, <<"$", "{", "%", "}">>, <<"$", "{", "a", " ", "b", "}">>,
      <<"a", "$", "{", "b", "}">>, <<"$", "{", "a", "}", "b">>, <<"$", "$", "{", "a", "}">>,
      <<"%", "{">>, <<"$", "{", "a">> }

StringDocs == {[key \in {name} |-> JStr(str)] : name \in {"x", "type"}, str \in EmitterStrings}

ForwardDocs ==
    {[key \in {name} |-> v] : name \in Names, v \in ListValues \cup ObjectValues}
    \cup ContentDocs \cup StringDocs
    \cup {[key \in {"resource", "subnets"} |->
              IF key = "resource" THEN v ELSE JList(<<JObj([x \in {"x", "y"} |-> JNum(1)])>>)] :
            v \in {JList(<<JObj(EmptyMap), JNum(1)>>), JObj([l \in {"a"} |-> JNum(1)])}}

TfvarsOutput == Flags(FALSE, FALSE, ".tfvars")

(***************************************************************************)
(* The program: one run, either direction                                   *)
(***************************************************************************)
Init ==
    \/ \E b \in Bodies : Start(TRUE, DefaultFlags, HCLText(b), 0)
    \/ \E f \in AllFlags : Start(TRUE, f, HCLText(EmptyBody), 0)
    \/ Start(TRUE, DefaultFlags, BadHCLText, 0)
    \/ \E f \in AllFlags, d \in SmallDocs : Start(FALSE, f, JSONText(d), 0)
    \/ \E d \in SmallDocs : Start(FALSE, DefaultFlags, DupJSONText(d), 0)
    \/ Start(FALSE, DefaultFlags, BadJSONText, 0)

Next ==
    \/ Main
    \/ ParseHCL
    \/ ConvertBlock
    \/ ConvertAttributes
    \/ PrintJSON
    \/ ParseJSON
    \/ ConvertAttribute
    \/ PartialContent
    \/ PrintHCL

Spec == Init /\ [][Next]_vars

(***************************************************************************)
(* JSON -> HCL -> JSON: the forward run, then the reverse run on its output  *)
(***************************************************************************)
InitRT ==
    \E f \in {NestPreferring, DefaultFlags}, d \in RoundTripDocs : Start(FALSE, f, JSONText(d), 1)

NextRT ==
    \/ Main
    \/ ParseJSON
    \/ ConvertAttribute
    \/ PrintHCL
    \/ Pipe
    \/ ParseHCL
    \/ ConvertBlock
    \/ ConvertAttributes
    \/ PrintJSON

SpecRT == InitRT /\ [][NextRT]_vars

(***************************************************************************)
(* HCL -> JSON -> HCL -> JSON: a block serialized, synthesized under the     *)
(* block-preferring dialect and serialized again                            *)
(***************************************************************************)
InitLabel == \E b \in LabelBodies : Start(TRUE, BlockPreferring, HCLText(b), 2)

NextLabel ==
    \/ Main
    \/ ParseHCL
    \/ ConvertBlock
    \/ ConvertAttributes
    \/ PrintJSON
    \/ Pipe
    \/ ParseJSON
    \/ ConvertAttribute
    \/ PrintHCL

SpecLabel == InitLabel /\ [][NextLabel]_vars

(***************************************************************************)
(* HCL -> JSON: the reverse run on one attribute, of a traversal or of a    *)
(* template                                                                *)
(***************************************************************************)
MaxLitLen == 4      \* characters of a template of literal text
MaxParts == 2       \* parts of a template with embedded expressions

LitChars == {"a", "$", "%", "{"}
Lit(text) == LiteralValueExpr(JStr(text))

\* a.b.a and a[0]
RefABA == ScopeTraversalExpr(<< <<"a">>, <<"b">>, <<"a">> >>, <<"a", ".", "b", ".", "a">>, FALSE)
RefIndex == ScopeTraversalExpr(<< <<"a">>, <<"0">> >>, <<"a", "[", "0", "]">>, FALSE)
RefLong == ScopeTraversalExpr(<< <<"v", "a", "r">> >>, <<"v", "a", "r">>, FALSE)

Traversals == {RefA, RefLong, RefAB, RefABA, RefIndex}

\* templates of literal text alone
LiteralTemplates == {TemplateExpr(<<Lit(text)>>) : text \in SeqsUpTo(LitChars, MaxLitLen)}

\* %{if ...}, with no else, with an else, with an empty else, with branches that
\* are templates
Conditionals ==
    { ConditionalExpr(RefA, Lit(<<"a">>), Lit(<<>>), <<"a">>, FALSE),
      ConditionalExpr(RefAB, Lit(<<"a">>), Lit(<<"b">>), <<"a", ".", "b">>, FALSE),
      ConditionalExpr(CallA, TemplateExpr(<<Lit(<<"$", "{">>), RefA>>), TemplateExpr(<<Lit(<<>>)>>),
                      <<"f", "(", "a">>, TRUE),
      ConditionalExpr(RefA, Lit(<<>>), TemplateWrapExpr(RefAB), <<"a">>, FALSE) }

\* %{for ...}, with and without a key variable
Joins ==
    { TemplateJoinExpr(<<>>, <<"v">>, RefAB, Lit(<<"a">>)),
      TemplateJoinExpr(<<"k">>, <<"v">>, CallA, TemplateExpr(<<Lit(<<"%", "{">>), RefA>>)),
      TemplateJoinExpr(<<>>, <<"v">>, RefA,
                       ConditionalExpr(RefA, Lit(<<"a">>), Lit(<<>>), <<"a">>, FALSE)) }

\* the parts of a template
LiteralParts == {Lit(<<"a">>), Lit(<<"$", "{">>), Lit(<<"%", "{", "a">>)}
EmbeddedParts == {RefA, RefAB, CallA, MinusTrue, One, LiteralValueExpr(JNull)}
TemplatePartsOf == LiteralParts \cup EmbeddedParts \cup Conditionals \cup Joins

\* templates with embedded expressions or directives (a template of one
\* interpolation alone is a TemplateWrapExpr)
PartTemplates ==
    {TemplateExpr(parts) : parts \in {ps \in SeqsUpTo(TemplatePartsOf, MaxParts) :
        /\ ps # <<>>
        /\ ~(Len(ps) = 1 /\ ps[1] \in LiteralParts \cup EmbeddedParts)
        /\ \A i \in 1..(Len(ps) - 1) : ~(ps[i] \in LiteralParts /\ ps[i + 1] \in LiteralParts)}}

SerializerExprs ==
    Traversals \cup LiteralTemplates \cup PartTemplates
    \cup {TemplateWrapExpr(e) : e \in Traversals \cup {CallA}}

InitExpr ==
    \E e \in SerializerExprs : Start(TRUE, DefaultFlags, HCLText(Body([x \in {"x"} |-> e], <<>>)), 0)

NextExpr ==
    \/ Main
    \/ ParseHCL
    \/ ConvertAttributes
    \/ PrintJSON

SpecExpr == InitExpr /\ [][NextExpr]_vars

(***************************************************************************)
(* Either direction, one run that goes on as long as it can: the process is *)
(* sequential and nothing outside it delays a step (weak fairness of Next)  *)
(***************************************************************************)
\* documents whose conversion recurses: labels in labels, lists in content
DeepDocs ==
    LET leaf == JObj([x \in {"x"} |-> JNum(1)])
        inB == JObj([m \in {"b"} |-> JList(<<leaf>>)])
        inAB == JObj([l \in {"a"} |-> inB])
        lists == JObj([l \in {"a"} |-> JList(<<JObj([m \in {"b"} |-> JList(<<leaf, leaf>>)])>>)])
    IN  {[key \in {"resource"} |-> v] : v \in {inB, inAB, lists, JList(<<inAB>>), JList(<<lists, leaf>>)}}

LiveDocs == SmallDocs \cup ContentDocs \cup StringDocs \cup DeepDocs

InitLive ==
    \/ \E b \in NestedBodies \cup ExprBodies : Start(TRUE, DefaultFlags, HCLText(b), 0)
    \/ \E f \in AllFlags : Start(TRUE, f, HCLText(EmptyBody), 0)
    \/ Start(TRUE, DefaultFlags, BadHCLText, 0)
    \/ \E f \in {BlockPreferring, NestPreferring}, d \in LiveDocs : Start(FALSE, f, JSONText(d), 0)
    \/ \E d \in SmallDocs : Start(FALSE, DefaultFlags, DupJSONText(d), 0)
    \/ Start(FALSE, DefaultFlags, BadJSONText, 0)

SpecLive == InitLive /\ [][Next]_vars /\ WF_vars(Next)

(***************************************************************************)
(* JSON -> HCL: the forward run on documents of block-shaped values, under  *)
(* either dialect                                                          *)
(***************************************************************************)
InitForward ==
    \E f \in {BlockPreferring, NestPreferring, TfvarsOutput, DefaultFlags}, d \in ForwardDocs :
        Start(FALSE, f, JSONText(d), 0)

NextForward ==
    \/ Main
    \/ ParseJSON
    \/ ConvertAttribute
    \/ PrintHCL

SpecForward == InitForward /\ [][NextForward]_vars

(***************************************************************************)
(* Properties of one run                                                   *)
(***************************************************************************)
\* the value below v at the end of the path keys, every step of which goes
\* through a JSON object (Nil: there is no such path)
RECURSIVE AtPath(_, _)
AtPath(v, keys) ==
    IF keys = <<>> THEN v
    ELSE IF IsObj(v) /\ Head(keys) \in DOMAIN v.obj THEN AtPath(v.obj[Head(keys)], Tail(keys))
    ELSE Nil

BlockPath(b) == <<b.Type>> \o b.Labels

StructuralErrors == {ErrUnableToConvert, ErrInvalidHCL}

\* the reverse run is over: it failed, or ConvertBody returned
ReverseEnded == reverse /\ pc \in {"exit", "marshal", "done"}

\* C1: right after convertBlock has converted a block of type t with labels
\* l1..ln and body B, the output holds nested objects along t -> l1 -> ... ->
\* ln, the value at the end of the path is a list, the last element of the list
\* is the serialized B, and every attribute of B is in it as name -> serialized
\* expression.
C1_BlockAtPath ==
    (reverse /\ pc = "blocks" /\ idx >= 1) =>
        LET b == body.Blocks[idx]
            v == AtPath(JObj(out), BlockPath(b))
        IN  /\ IsList(v)
            /\ Len(v.list) >= 1
            /\ v.list[Len(v.list)] = ConvertBody(b.Body).val
            /\ \A name \in DOMAIN b.Body.Attributes :
                  v.list[Len(v.list)].obj[name] = ConvertExpression(b.Body.Attributes[name]).val

\* a second block with two labels and an attribute has been appended to the
\* list of a first block of the same path
C1_Witness ==
    /\ reverse /\ pc = "blocks" /\ idx = 2
    /\ Len(body.Blocks[2].Labels) = 2
    /\ BlockPath(body.Blocks[1]) = BlockPath(body.Blocks[2])
    /\ DOMAIN body.Blocks[2].Body.Attributes = {"x"}
    /\ Len(AtPath(JObj(out), BlockPath(body.Blocks[2])).list) = 2

\* the serialized bodies of the blocks of the path p, in source order
BodiesAt(blocks, p) ==
    LET sel == SelectSeq(blocks, LAMBDA b : BlockPath(b) = p)
    IN  [i \in 1..Len(sel) |-> ConvertBody(sel[i].Body).val]

\* C2: when ConvertBody has returned, the value at the path of every block is
\* the list of the serialized bodies of exactly the blocks of that path, in
\* source order.
C2_SamePathList ==
    (reverse /\ pc = "marshal") =>
        \A i \in 1..Len(body.Blocks) :
            AtPath(JObj(out), BlockPath(body.Blocks[i]))
                = JList(BodiesAt(body.Blocks, BlockPath(body.Blocks[i])))

\* two blocks t {} beside the attribute t = 1: the value at t is 1, not a list
C2_Witness ==
    /\ reverse /\ pc = "marshal" /\ err = NoErr
    /\ Len(body.Blocks) = 2
    /\ BlockPath(body.Blocks[1]) = <<"t">>
    /\ BlockPath(body.Blocks[2]) = <<"t">>
    /\ "t" \in DOMAIN body.Attributes
    /\ out["t"] = JNum(1)

IsProperPrefix(p, q) == Len(p) < Len(q) /\ SubSeq(q, 1, Len(p)) = p

HasPrefixPair(blocks) ==
    \E i, j \in 1..Len(blocks) :
        /\ blocks[i].Type = blocks[j].Type
        /\ IsProperPrefix(blocks[i].Labels, blocks[j].Labels)

\* C3: a body with two blocks of one type, the labels of one a proper prefix of
\* the labels of the other, ends ConvertBody with a structural-conflict error,
\* in either source order.
C3_PrefixConflict ==
    (ReverseEnded /\ body # Nil /\ HasPrefixPair(body.Blocks)) => err \in StructuralErrors

\* t { x = -true } before a labelled block t: the run ended with the error of
\* the expression
C3_Witness ==
    /\ reverse /\ pc = "exit" /\ idx = 1
    /\ HasPrefixPair(body.Blocks)
    /\ body.Blocks[1].Labels = <<>>
    /\ body.Blocks[1].Body.Attributes = [x \in {"x"} |-> MinusTrue]
    /\ err = ErrExpression

\* C4: a body with a block of type k and an attribute named k ends ConvertBody
\* with a structural-conflict error.
C4_BlockAttributeConflict ==
    (ReverseEnded /\ body # Nil
     /\ \E i \in 1..Len(body.Blocks) : body.Blocks[i].Type \in DOMAIN body.Attributes)
        => err \in StructuralErrors

\* one block t {} beside the attribute t = 1: ConvertBody returned {"t": 1}
\* and no error
C4_Witness ==
    /\ reverse /\ pc = "marshal" /\ err = NoErr
    /\ body.Blocks = <<Block("t", <<>>, EmptyBody)>>
    /\ body.Attributes = [x \in {"t"} |-> One]
    /\ out = [x \in {"t"} |-> JNum(1)]
    /\ ret.ConvertBody = JObj(out)

\* C5: ConvertExpression returns no error for any expression, and a reverse run
\* that parsed its input ends with no error or with a structural-conflict
\* error.
C5_ExpressionTotal ==
    (ReverseEnded /\ body # Nil) =>
        /\ \A name \in DOMAIN body.Attributes : ConvertExpression(body.Attributes[name]).err = NoErr
        /\ err \in StructuralErrors \cup {NoErr}

\* x = !1 ended the run with the error of the expression
C5_Witness ==
    /\ reverse /\ pc = "exit"
    /\ body = Body([x \in {"x"} |-> NotOne], <<>>)
    /\ ConvertExpression(NotOne) = Ret(Nil, ErrExpression)
    /\ err = ErrExpression

\* C6: a reverse run that ends with an error has got no object from
\* ConvertBody, ConvertFile or Bytes and has printed nothing; a run that
\* printed, in either direction, ended without error, and the reverse run
\* printed the whole converted map.
C6_AllOrNothing ==
    /\ (reverse /\ pc = "exit") =>
            /\ err # NoErr
            /\ ret.ConvertBody \in {Nil, NotCalled}
            /\ ret.ConvertFile \in {Nil, NotCalled}
            /\ ret.Bytes \in {Nil, NotCalled}
            /\ stdout = NoOutput
    /\ (~reverse /\ pc = "exit") => (err # NoErr /\ stdout = NoOutput)
    /\ stdout # NoOutput => (err = NoErr /\ pc = "done")
    /\ (reverse /\ pc = "done") => stdout = JSONText(out)

\* the second block failed after the first had been put into the map
C6_Witness ==
    /\ reverse /\ pc = "exit" /\ idx = 2
    /\ err = ErrInvalidHCL
    /\ out # EmptyMap
    /\ ret.ConvertBody = Nil

(***************************************************************************)
(* Properties of the round trips                                           *)
(***************************************************************************)
\* the last run of a piped sequence, a reverse run, is over
LastRunEnded == reverse /\ runs = 0 /\ pc \in {"exit", "done"}

\* the forward run has emitted the attribute key of its input
Emitted(key) == ~reverse /\ pc \in {"attrs", "done"} /\ key \in DOMAIN body /\ key \notin todo

HasIntroducer(str) == Contains(str, DollarBrace) \/ Contains(str, PercentBrace)

\* no string at any depth of v holds a template introducer
RECURSIVE IsPlain(_)
IsPlain(v) ==
    IF IsStr(v) THEN ~HasIntroducer(v.str)
    ELSE IF IsList(v) THEN \A i \in 1..Len(v.list) : IsPlain(v.list[i])
    ELSE IF IsObj(v) THEN \A key \in DOMAIN v.obj : IsPlain(v.obj[key])
    ELSE TRUE

\* no key of the document holds a value the block classifier takes for blocks
\* under the nest-preferring dialect
NoBlockSignature(doc) == \A key \in DOMAIN doc : ~isHCLBlockArray(key, doc[key], "tfvars")

AttributeDocument ==
    orig.kind = "json" /\ targetFileType = "tfvars" /\ NoBlockSignature(orig.doc)

IsReferenceString(v) ==
    /\ IsStr(v)
    /\ Len(v.str) >= 4
    /\ SubSeq(v.str, 1, 2) = DollarBrace
    /\ v.str[Len(v.str)] = "}"
    /\ \A i \in 3..(Len(v.str) - 1) :
          v.str[i] \in Letters \cup UpperLetters \cup Digits \cup {".", "_", "-"}

ReferenceOf(v) == SubSeq(v.str, 3, Len(v.str) - 1)

\* r is two or more identifiers, each starting with a letter, joined by single
\* dots
IsDottedReference(r) ==
    /\ Len(Split(r, ".")) >= 2
    /\ \A i \in 1..Len(Split(r, ".")) :
          IsIdentifier(Split(r, ".")[i]) /\ Split(r, ".")[i][1] \in Letters

\* the block a label round trip starts from
LabelBlock == orig.body.Blocks[1]

\* the last run read one block of the type, the labels and the serialized
\* content of the first, and printed the document the first run printed
SameBlockRead ==
    /\ pc = "done"
    /\ DOMAIN body.Attributes = {}
    /\ Len(body.Blocks) = 1
    /\ body.Blocks[1].Type = LabelBlock.Type
    /\ body.Blocks[1].Labels = LabelBlock.Labels
    /\ ConvertBody(body.Blocks[1].Body) = ConvertBody(LabelBlock.Body)
    /\ stdout = JSONText(ConvertBody(orig.body).val.obj)

\* null, a boolean, a number, a string without a template introducer, or
\* "${r}" for a dotted reference r
IsSimpleContent(v) ==
    \/ IsNull(v) \/ IsBool(v) \/ IsNum(v)
    \/ IsStr(v) /\ ~HasIntroducer(v.str)
    \/ IsReferenceString(v) /\ IsDottedReference(ReferenceOf(v))

\* the content holds no block and every attribute serializes to a simple value
SimpleContent(b) ==
    /\ b.Blocks = <<>>
    /\ \A name \in DOMAIN b.Attributes : IsSimpleContent(ConvertExpression(b.Attributes[name]).val)

\* C8 as stated: the JSON of a block, synthesized under the block-preferring
\* dialect and serialized again, gives a block of the same labels and the
\* same content keys and values.
C8_LabelRoundTrip ==
    (LastRunEnded /\ orig.kind = "hcl") => SameBlockRead

\* the round trip does give the labels and the content back when the type is
\* one of variable, output, locals, provider, resource, data, module, terraform,
\* there are at most two labels, and the content holds no block and only simple
\* values
KnownTypeLabelRoundTrip ==
    (LastRunEnded /\ orig.kind = "hcl" /\ LabelBlock.Type \in objectBlockTypes
     /\ Len(LabelBlock.Labels) <= 2 /\ SimpleContent(LabelBlock.Body)) => SameBlockRead

\* resource "a" "b" "a" {} has come back as a block of the one label a
ThreeLabelsLost ==
    /\ LastRunEnded /\ pc = "done" /\ orig.kind = "hcl"
    /\ LabelBlock = Block("resource", <<"a", "b", "a">>, EmptyBody)
    /\ Len(body.Blocks) = 1
    /\ body.Blocks[1].Labels = <<"a">>

\* resource { x = [1] } has come back as resource {}: the content is lost
C8_Witness ==
    /\ LastRunEnded /\ pc = "done" /\ orig.kind = "hcl"
    /\ LabelBlock = Block("resource", <<>>, Body([x \in {"x"} |-> TupleConsExpr(<<One>>)], <<>>))
    /\ body.Blocks = <<Block("resource", <<>>, EmptyBody)>>
    /\ stdout.doc = [x \in {"resource"} |-> JList(<<JObj(EmptyMap)>>)]

\* the attribute line with the tokens t reads back and serializes to v
SerializesTo(t, v) ==
    ParseTokens(t).ok /\ ConvertExpression(ParseTokens(t).expr) = Ret(v, NoErr)

\* attributes of the input whose value is "${r}", r a simple reference
ReferenceKeys == {key \in DOMAIN orig.doc : IsReferenceString(orig.doc[key])}

\* C9 as stated: an attribute with the value "${r}", r a simple reference, is
\* emitted as the bare expression r, and serializing it back yields "${r}".
C9_ReferenceRoundTrip ==
    orig.kind = "json" =>
        \A key \in ReferenceKeys :
            /\ Emitted(key) =>
                  /\ native.Attributes[key] = RawTokens("TokenIdent", ReferenceOf(orig.doc[key]))
                  /\ SerializesTo(native.Attributes[key], orig.doc[key])
            /\ (LastRunEnded /\ pc = "done") => stdout.doc[key] = orig.doc[key]

\* C9 amended: ... is emitted as the bare expression r, and serializing it
\* back yields "${r}" when r is two or more identifiers joined by single dots.
C9_DottedReferenceRoundTrip ==
    orig.kind = "json" =>
        \A key \in ReferenceKeys :
            /\ Emitted(key) =>
                  native.Attributes[key] = RawTokens("TokenIdent", ReferenceOf(orig.doc[key]))
            /\ IsDottedReference(ReferenceOf(orig.doc[key])) =>
                  /\ Emitted(key) => SerializesTo(native.Attributes[key], orig.doc[key])
                  /\ (LastRunEnded /\ pc = "done") => stdout.doc[key] = orig.doc[key]

\* "${a.a}" was emitted as a.a and has come back as "${a.a}"
C9_Witness ==
    /\ LastRunEnded /\ pc = "done" /\ orig.kind = "json"
    /\ orig.doc = [key \in {"x"} |-> JStr(Interpolated(<<"a", ".", "a">>))]
    /\ stdin.body.Attributes["x"] = RawTokens("TokenIdent", <<"a", ".", "a">>)
    /\ stdout.doc = orig.doc

\* C10: the attribute type whose value is one of the nine type keywords is
\* emitted as an unquoted identifier, and serializing it back yields the
\* keyword as a JSON string.
C10_TypeKeywordIdempotent ==
    (orig.kind = "json" /\ "type" \in DOMAIN orig.doc /\ IsStr(orig.doc["type"])
     /\ orig.doc["type"].str \in unquotedTypes) =>
        /\ Emitted("type") =>
              /\ native.Attributes["type"] = RawTokens("TokenIdent", orig.doc["type"].str)
              /\ SerializesTo(native.Attributes["type"], orig.doc["type"])
        /\ (LastRunEnded /\ pc = "done") => stdout.doc["type"] = orig.doc["type"]

\* type = any was emitted unquoted and has come back as "any"
C10_Witness ==
    /\ LastRunEnded /\ pc = "done" /\ orig.kind = "json"
    /\ orig.doc = [key \in {"type"} |-> JStr(<<"a", "n", "y">>)]
    /\ stdin.body.Attributes["type"] = RawTokens("TokenIdent", <<"a", "n", "y">>)
    /\ stdout.doc["type"] = JStr(<<"a", "n", "y">>)

(***************************************************************************)
(* Properties of the forward run                                           *)
(***************************************************************************)
\* the forward run on a JSON document
ForwardRun == ~reverse /\ orig.kind = "json"

\* the value is classified (a list) or selected (an object) as block data
SelectedAsBlocks(name, val, fileType) ==
    \/ IsList(val) /\ isHCLBlockArray(name, val, fileType)
    \/ IsObj(val) /\ shouldConvertObjectToBlocks(name, val, fileType)

\* what the block conversion of the value returns on an empty body
BlockConversion(name, val, fileType, order) ==
    IF IsList(val) THEN convertJSONBlockArray(name, val, EmptyNative, order)
    ELSE convertObjectToBlocks(name, val, EmptyNative, fileType, order)

ConversionFails(name, val, fileType) ==
    /\ SelectedAsBlocks(name, val, fileType)
    /\ \E order \in MapOrders : BlockConversion(name, val, fileType, order).err # NoErr

\* the keys of the document whose value is block data that fails to convert
FailingKeys == {key \in DOMAIN orig.doc : ConversionFails(key, orig.doc[key], targetFileType)}

\* C11: once the loop has visited a key whose value is block data that fails
\* to convert, the output body has the attribute of that key holding the whole
\* value; the run has no error and prints that body.
C11_FallbackAttribute ==
    ForwardRun =>
        /\ \A key \in FailingKeys :
              Emitted(key) =>
                  /\ key \in DOMAIN native.Attributes
                  /\ native.Attributes[key] = ValueTokens(orig.doc[key])
        /\ FailingKeys # {} => (err = NoErr /\ pc # "exit")
        /\ pc = "done" => stdout = NativeText(native)

\* resource = [{}, 1] has been printed as an attribute
C11_Witness ==
    /\ ForwardRun /\ pc = "done"
    /\ orig.doc = [key \in {"resource"} |-> JList(<<JObj(EmptyMap), JNum(1)>>)]
    /\ FailingKeys = {"resource"}
    /\ stdout.body.Attributes["resource"] = ValueTokens(orig.doc["resource"])

\* the blocks of the given type in the output body
BlocksOfType(type) == SelectSeq(native.Blocks, LAMBDA b : b.Type = type)

\* a field that is written as a plain attribute: a number, a boolean or a
\* string with no interpolation
IsPlainField(v) == IsNum(v) \/ IsBool(v) \/ (IsStr(v) /\ ~Contains(v.str, DollarBrace))

\* {name_1: [{fields_1}], ..., name_m: [{fields_m}]} with plain fields
IsVariableForm(val) ==
    /\ IsObj(val)
    /\ \A name \in DOMAIN val.obj :
          /\ IsList(val.obj[name]) /\ Len(val.obj[name].list) = 1
          /\ IsObj(val.obj[name].list[1])
          /\ \A k \in DOMAIN val.obj[name].list[1].obj : IsPlainField(val.obj[name].list[1].obj[k])

\* the tokens of a field of a variable block: a type keyword is bare
FieldTokens(k, v) ==
    IF k = "type" /\ IsStr(v) /\ v.str \in unquotedTypes THEN RawTokens("TokenIdent", v.str)
    ELSE ValueTokens(v)

VariableBlock(name, fields) ==
    NativeBlock("variable", <<name>>,
                NativeBody([k \in DOMAIN fields |-> FieldTokens(k, fields[k])], <<>>))

IsRecordList(key, val) ==
    /\ key \notin hclBlockTypes \cup {"variable"}
    /\ IsList(val) /\ Len(val.list) > 0
    /\ IsObj(val.list[1]) /\ Size(val.list[1].obj) > 1

\* C13: under either dialect, once the loop has visited a key that is no
\* well-known block type and holds a list whose first element is an object of
\* more than one key, the output body has the attribute of that key holding
\* the whole list and no block of that type.
C13_RecordListAttribute ==
    ForwardRun =>
        \A key \in DOMAIN orig.doc :
            (IsRecordList(key, orig.doc[key]) /\ Emitted(key)) =>
                /\ key \in DOMAIN native.Attributes
                /\ native.Attributes[key] = ValueTokens(orig.doc[key])
                /\ BlocksOfType(key) = <<>>

\* subnets = [{x = 1, y = 1}] has been printed as an attribute next to
\* a block of another key
C13_Witness ==
    /\ ForwardRun /\ pc = "done"
    /\ "subnets" \in DOMAIN orig.doc
    /\ IsRecordList("subnets", orig.doc["subnets"])
    /\ stdout.body.Attributes["subnets"] = ValueTokens(orig.doc["subnets"])
    /\ BlocksOfType("subnets") = <<>>
    /\ Len(native.Blocks) > 0

\* C14: with the nested format selected, once the loop has visited a key
\* holding a list, the output body has the attribute of that key holding the
\* whole list and no block of that type, whatever the key and the elements.
C14_NestedKeepsArrays ==
    (ForwardRun /\ targetFileType = "tfvars") =>
        \A key \in DOMAIN orig.doc :
            (IsList(orig.doc[key]) /\ Emitted(key)) =>
                /\ key \in DOMAIN native.Attributes
                /\ native.Attributes[key] = ValueTokens(orig.doc[key])
                /\ BlocksOfType(key) = <<>>

\* with --keep-arrays-nested, {"resource": [{"x": 1}]} has been printed as the
\* block resource { x = 1 } and no attribute
C14_Witness ==
    /\ ForwardRun /\ pc = "done"
    /\ flags = NestPreferring /\ targetFileType = "tfvars"
    /\ orig.doc = [key \in {"resource"} |-> JList(<<JObj([x \in {"x"} |-> JNum(1)])>>)]
    /\ stdout.body.Attributes = EmptyMap
    /\ stdout.body.Blocks =
          <<NativeBlock("resource", <<>>, NativeBody([x \in {"x"} |-> ValueTokens(JNum(1))], <<>>))>>

\* the dialect the command line selects, by the documented priority
SelectedDialect(f) ==
    CASE f.treatArraysAsBlocks -> "terraform"
      [] ~f.treatArraysAsBlocks /\ f.keepArraysNested -> "tfvars"
      [] ~f.treatArraysAsBlocks /\ ~f.keepArraysNested /\ f.outputExt = ".tfvars" -> "tfvars"
      [] OTHER -> "terraform"

BothFlags == flags.treatArraysAsBlocks /\ flags.keepArraysNested

\* C15: past main's flag handling the dialect is the one the priority
\* selects: a flag before the -output extension, .tfvars for the nested
\* format and every other or no extension for the terraform format.  With
\* both flags the run ends in main with the error, before any parse or
\* conversion: nothing is read, converted or printed.
C15_DialectPriority ==
    /\ (~BothFlags /\ pc # "main") => targetFileType = SelectedDialect(flags)
    /\ BothFlags =>
          /\ pc \in {"main", "exit"}
          /\ pc = "exit" => err = ErrBothFlags
          /\ body = Nil /\ out = EmptyMap /\ native = EmptyNative /\ todo = {}
          /\ ret = NoReturn /\ stdout = NoOutput

\* --keep-arrays-nested with -output x.tf has selected the nested format and
\* the run has printed; another run has ended on both flags
C15_Witness ==
    /\ flags = Flags(FALSE, TRUE, ".tf") /\ pc = "done" /\ targetFileType = "tfvars"
    /\ ~reverse /\ stdout.kind = "native"

C15_BothFlagsWitness == BothFlags /\ pc = "exit" /\ err = ErrBothFlags /\ ~reverse

\* a single-key object whose value is a one-element list whose sole element is
\* a single-key object
HasLabelSignature(e) ==
    /\ IsObj(e) /\ Cardinality(DOMAIN e.obj) = 1
    /\ \A k \in DOMAIN e.obj :
          /\ IsList(e.obj[k]) /\ Len(e.obj[k].list) = 1
          /\ IsObj(e.obj[k].list[1]) /\ Cardinality(DOMAIN e.obj[k].list[1].obj) = 1

\* the classification of a list under a key, by precedence
Classification(key, list, fileType) ==
    CASE Len(list) = 0 -> FALSE
      [] Len(list) > 0 /\ key = "variable" -> fileType = "terraform"
      [] Len(list) > 0 /\ key # "variable" /\ key \in hclBlockTypes -> TRUE
      [] OTHER -> HasLabelSignature(list[1])

ListBlockNames ==
    {"variable", "resource", "data", "provider", "output", "locals", "module", "terraform",
     "attribute", "global_secondary_index", "local_secondary_index", "backup_policy",
     "point_in_time_recovery", "server_side_encryption", "stream_specification", "ttl"}

\* the top-level block types of Terraform
TopLevelBlockNames ==
    {"variable", "resource", "data", "provider", "output", "locals", "module", "terraform"}

\* {label_1: [{...}], ..., label_m: [{...}]}, m > 0
IsLabelledObject(val) ==
    /\ IsObj(val) /\ DOMAIN val.obj # {}
    /\ \A l \in DOMAIN val.obj :
          IsList(val.obj[l]) /\ Len(val.obj[l].list) = 1 /\ IsObj(val.obj[l].list[1])

\* what the output holds of an object once the loop has visited its key: blocks
\* only if selected, and the plain attribute if not
ObjectsSelectedBy(names) ==
    (ForwardRun /\ pc # "main") =>
        \A key \in DOMAIN orig.doc :
            IsObj(orig.doc[key]) =>
                /\ shouldConvertObjectToBlocks(key, orig.doc[key], targetFileType)
                      = (targetFileType = "terraform" /\ key \in names)
                /\ (Emitted(key) /\ ~(targetFileType = "terraform" /\ key \in names)) =>
                      /\ key \in DOMAIN native.Attributes
                      /\ native.Attributes[key] = ValueTokens(orig.doc[key])
                      /\ BlocksOfType(key) = <<>>
                /\ (/\ Emitted(key) /\ targetFileType = "terraform" /\ key \in names
                    /\ IsLabelledObject(orig.doc[key])) =>
                      /\ key \notin DOMAIN native.Attributes
                      /\ Len(BlocksOfType(key)) = Size(orig.doc[key].obj)

\* C17 as stated: an object is block data exactly under the terraform dialect
\* and a key of the set of names that makes a list block data (the variable
\* name included); under the nested dialect no object becomes blocks.
C17_ObjectListNames == ObjectsSelectedBy(ListBlockNames)

\* C17: an object is block data exactly under the terraform dialect and a key
\* among variable, resource, data, provider, output, locals, module and
\* terraform; an object that is not block data is the plain attribute of its
\* key with no block of that type, so under the nested dialect no object
\* becomes blocks.
C17_ObjectTopLevelNames == ObjectsSelectedBy(TopLevelBlockNames)

\* under the terraform dialect {"ttl": {"a": [{"x": 1}]}} has been printed as
\* the attribute ttl, and no block
C17_Witness ==
    /\ ForwardRun /\ pc = "done" /\ targetFileType = "terraform"
    /\ orig.doc = [key \in {"ttl"} |->
                      JObj([l \in {"a"} |-> JList(<<JObj([x \in {"x"} |-> JNum(1)])>>)])]
    /\ isHCLBlockArray("ttl", JList(<<orig.doc["ttl"]>>), targetFileType)
    /\ stdout.body = NativeBody([key \in {"ttl"} |-> ValueTokens(orig.doc["ttl"])], <<>>)

\* {l: [e]} with e an object
IsLabelLevel(e) ==
    /\ IsObj(e) /\ Cardinality(DOMAIN e.obj) = 1
    /\ \A l \in DOMAIN e.obj :
          IsList(e.obj[l]) /\ Len(e.obj[l].list) = 1 /\ IsObj(e.obj[l].list[1])

LabelOf(e) == CHOOSE l \in DOMAIN e.obj : TRUE
Below(e) == e.obj[LabelOf(e)].list[1]

\* {l1: [{l2: [ ... {ln: [C]} ... ]}]} with n >= 1 and C an object of more than
\* one key
RECURSIVE IsLabelNest(_)
IsLabelNest(e) ==
    /\ IsLabelLevel(e)
    /\ \/ Cardinality(DOMAIN Below(e).obj) > 1
       \/ IsLabelNest(Below(e))

\* <<l1, ..., ln>> and C of such an instance
RECURSIVE NestLabels(_)
NestLabels(e) ==
    IF Cardinality(DOMAIN Below(e).obj) > 1 THEN <<LabelOf(e)>>
    ELSE <<LabelOf(e)>> \o NestLabels(Below(e))

RECURSIVE NestContent(_)
NestContent(e) ==
    IF Cardinality(DOMAIN Below(e).obj) > 1 THEN Below(e).obj ELSE NestContent(Below(e))

\* the document is {"resource": [instance]}
OneInstance ==
    /\ DOMAIN orig.doc = {"resource"}
    /\ IsList(orig.doc["resource"]) /\ Len(orig.doc["resource"].list) = 1
    /\ IsObj(orig.doc["resource"].list[1])

TheInstance == orig.doc["resource"].list[1]

\* C18: of an instance {l1: [{l2: [ ... {ln: [C]} ... ]}]}, n >= 1, with C an
\* object of more than one key, the extractor returns the labels
\* <<l1, ..., ln>> and the content C, and the block of the instance has these
\* labels.
C18_DeepLabels ==
    (ForwardRun /\ OneInstance /\ IsLabelNest(TheInstance)) =>
        /\ extractBlockLabelsAndContent(TheInstance)
              = LabelsContent(NestLabels(TheInstance), NestContent(TheInstance))
        /\ Emitted("resource") =>
              /\ Len(native.Blocks) = 1
              /\ native.Blocks[1].Labels = NestLabels(TheInstance)

\* the same for at most two labels
C18_TwoLabels ==
    (ForwardRun /\ OneInstance /\ IsLabelNest(TheInstance) /\ Len(NestLabels(TheInstance)) <= 2) =>
        /\ extractBlockLabelsAndContent(TheInstance)
              = LabelsContent(NestLabels(TheInstance), NestContent(TheInstance))
        /\ Emitted("resource") =>
              /\ Len(native.Blocks) = 1
              /\ native.Blocks[1].Labels = NestLabels(TheInstance)

\* {"resource": [{"a": [{"b": [{"a": [{"type": "any", "x": 1}]}]}]}]} has been
\* printed as the block resource "a" "b" holding a block a
C18_Witness ==
    /\ ForwardRun /\ pc = "done" /\ OneInstance /\ IsLabelNest(TheInstance)
    /\ NestLabels(TheInstance) = <<"a", "b", "a">>
    /\ Len(stdout.body.Blocks) = 1
    /\ stdout.body.Blocks[1].Labels = <<"a", "b">>
    /\ Len(stdout.body.Blocks[1].Body.Blocks) = 1
    /\ stdout.body.Blocks[1].Body.Blocks[1].Type = "a"
    /\ stdout.body.Blocks[1].Body.Blocks[1].Labels = <<>>

\* {k: [e]} with e not an object
IsScalarLevel(e) ==
    /\ IsObj(e) /\ Cardinality(DOMAIN e.obj) = 1
    /\ \A k \in DOMAIN e.obj :
          IsList(e.obj[k]) /\ Len(e.obj[k].list) = 1 /\ ~IsObj(e.obj[k].list[1])

\* C19: of an instance {k: [e]} with e not an object, the extractor returns a
\* content that maps k to [e], and the block of the instance holds k.
C19_ScalarListKept ==
    (ForwardRun /\ OneInstance /\ IsScalarLevel(TheInstance)) =>
        /\ \A k \in DOMAIN TheInstance.obj :
              /\ k \in DOMAIN extractBlockLabelsAndContent(TheInstance).content
              /\ extractBlockLabelsAndContent(TheInstance).content[k] = TheInstance.obj[k]
        /\ Emitted("resource") =>
              /\ Len(native.Blocks) = 1
              /\ \A k \in DOMAIN TheInstance.obj :
                    /\ k \in DOMAIN native.Blocks[1].Body.Attributes
                    /\ native.Blocks[1].Body.Attributes[k] = ValueTokens(TheInstance.obj[k])

\* {"resource": [{"a": [1]}]} has been printed as the empty block resource {}
C19_Witness ==
    /\ ForwardRun /\ pc = "done" /\ OneInstance
    /\ TheInstance = JObj([k \in {"a"} |-> JList(<<JNum(1)>>)])
    /\ extractBlockLabelsAndContent(TheInstance) = LabelsContent(<<>>, EmptyMap)
    /\ stdout.body = NativeBody(EmptyMap, <<NativeBlock("resource", <<>>, EmptyNative)>>)

\* C20: once the loop has visited a key whose value is block data that fails
\* to convert, the output body has the attribute of that key and no block of
\* that type.
C20_FallbackLeavesNoBlock ==
    ForwardRun =>
        \A key \in FailingKeys :
            Emitted(key) =>
                /\ key \in DOMAIN native.Attributes
                /\ BlocksOfType(key) = <<>>

\* {"resource": [{}, 1]} has been printed as the block resource {} of the first
\* instance and the attribute resource = [{}, 1]
C20_Witness ==
    /\ ForwardRun /\ pc = "done"
    /\ DOMAIN orig.doc = {"resource"}
    /\ "resource" \in FailingKeys
    /\ orig.doc["resource"].list = <<JObj(EmptyMap), JNum(1)>>
    /\ stdout.body.Blocks = <<NativeBlock("resource", <<>>, EmptyNative)>>
    /\ DOMAIN stdout.body.Attributes = {"resource"}

\* {"variable": {"a": [{}], "b": 1}} has been printed as the attribute variable
\* with the block variable "a" in one order of the map and without it in the
\* other
C20_LabelWitness ==
    /\ ForwardRun /\ pc = "done" /\ targetFileType = "terraform"
    /\ orig.doc = [key \in {"variable"} |->
                      JObj([l \in {"a", "b"} |->
                               IF l = "a" THEN JList(<<JObj(EmptyMap)>>) ELSE JNum(1)])]
    /\ stdout.body.Blocks = <<NativeBlock("variable", <<"a">>, EmptyNative)>>
    /\ DOMAIN stdout.body.Attributes = {"variable"}

\* the document is {"resource": [content]}, content of several fields: the block
\* of the list form
ListFormDoc == OneInstance /\ Cardinality(DOMAIN TheInstance.obj) > 1

\* the document is {"resource": {"a": [content]}} under the terraform dialect:
\* the block of the object form
ObjectFormDoc ==
    /\ DOMAIN orig.doc = {"resource"} /\ targetFileType = "terraform"
    /\ IsLabelledObject(orig.doc["resource"])
    /\ DOMAIN orig.doc["resource"].obj = {"a"}

TheObjectContent == orig.doc["resource"].obj["a"].list[1].obj

\* in block b of the given content, a field that is not a list classified as
\* block data is the attribute of its name and no nested block, and a list
\* classified as block data whose first element is an object is a nested block
FieldsAsClassified(b, content, fileType) ==
    \A k \in DOMAIN content :
        IF IsList(content[k]) /\ isHCLBlockArray(k, content[k], fileType)
        THEN IsObj(content[k].list[1]) => \E i \in 1..Len(b.Body.Blocks) : b.Body.Blocks[i].Type = k
        ELSE /\ k \in DOMAIN b.Body.Attributes
             /\ b.Body.Attributes[k] = FieldTokens(k, content[k])
             /\ \A i \in 1..Len(b.Body.Blocks) : b.Body.Blocks[i].Type # k

\* C21 for the object form
C21_ObjectFormFields ==
    (ForwardRun /\ ObjectFormDoc /\ Emitted("resource")) =>
        /\ Len(native.Blocks) = 1
        /\ FieldsAsClassified(native.Blocks[1], TheObjectContent, targetFileType)

\* C21: inside a synthesized block, of the list form or of the object form, a
\* list field is nested blocks only when the classifier takes it for block
\* data; every other field is an attribute of the block.
C21_FieldsFollowClassifier ==
    /\ C21_ObjectFormFields
    /\ (ForwardRun /\ ListFormDoc /\ Emitted("resource")) =>
          /\ Len(native.Blocks) = 1
          /\ FieldsAsClassified(native.Blocks[1], TheInstance.obj, targetFileType)

\* {"resource": [{"subnets": [{"p": 1, "q": 1}], "x": 1}]} has been printed as
\* resource { x = 1, subnets { p = 1, q = 1 } }: the list of records is a block
C21_Witness ==
    /\ ForwardRun /\ pc = "done" /\ ListFormDoc
    /\ DOMAIN TheInstance.obj = {"subnets", "x"}
    /\ ~isHCLBlockArray("subnets", TheInstance.obj["subnets"], targetFileType)
    /\ Len(stdout.body.Blocks) = 1
    /\ DOMAIN stdout.body.Blocks[1].Body.Attributes = {"x"}
    /\ stdout.body.Blocks[1].Body.Blocks =
          <<NativeBlock("subnets", <<>>,
                        NativeBody([x \in {"p", "q"} |-> ValueTokens(JNum(1))], <<>>))>>

\* the object form of the same content has been printed with the attribute
\* subnets
C21_ObjectFormWitness ==
    /\ ForwardRun /\ pc = "done" /\ ObjectFormDoc
    /\ DOMAIN TheObjectContent = {"subnets", "x"}
    /\ TheObjectContent["subnets"] = JList(<<JObj([x \in {"p", "q"} |-> JNum(1)])>>)
    /\ DOMAIN stdout.body.Blocks[1].Body.Attributes = {"subnets", "x"}
    /\ stdout.body.Blocks[1].Body.Blocks = <<>>

\* the nine type keywords
TypeKeywords ==
    { <<"s", "t", "r", "i", "n", "g">>, <<"n", "u", "m", "b", "e", "r">>, <<"b", "o", "o", "l">>,
      <<"l", "i", "s", "t">>, <<"s", "e", "t">>, <<"m", "a", "p">>,
      <<"o", "b", "j", "e", "c", "t">>, <<"t", "u", "p", "l", "e">>, <<"a", "n", "y">> }

Quoted(str) == <<"\"">> \o str \o <<"\"">>

\* the tokens of an attribute by the four rules, in their precedence
EmitterTokens(name, v) ==
    CASE ~IsStr(v) -> ValueTokens(v)
      [] IsStr(v) /\ name = "type" /\ v.str \in TypeKeywords -> RawTokens("TokenIdent", v.str)
      [] IsStr(v) /\ ~(name = "type" /\ v.str \in TypeKeywords) /\ IsReferenceString(v) ->
            RawTokens("TokenIdent", ReferenceOf(v))
      [] IsStr(v) /\ ~(name = "type" /\ v.str \in TypeKeywords) /\ ~IsReferenceString(v)
         /\ Contains(v.str, DollarBrace) -> RawTokens("TokenQuotedLit", Quoted(v.str))
      [] OTHER -> ValueTokens(v)

\* C22: once the loop has visited a key whose value is not converted to
\* blocks, the attribute of the key holds the tokens of the four rules for a
\* string (type keyword, then "${r}" unwrapped, then verbatim with "${", then
\* the ordinary literal) and the ordinary literal for every other value.
C22_EmitterPrecedence ==
    ForwardRun =>
        \A key \in DOMAIN orig.doc :
            (Emitted(key) /\ ~SelectedAsBlocks(key, orig.doc[key], targetFileType)) =>
                /\ key \in DOMAIN native.Attributes
                /\ native.Attributes[key] = EmitterTokens(key, orig.doc[key])

\* x = "${%}" has been printed verbatim between quotes: no reference, but "${"
C22_Witness ==
    /\ ForwardRun /\ pc = "done"
    /\ orig.doc = [key \in {"x"} |-> JStr(<<"$", "{", "%", "}">>)]
    /\ stdout.body.Attributes["x"] = RawTokens("TokenQuotedLit", <<"\"", "$", "{", "%", "}", "\"">>)

\* what the printed value reads as when every string leaf of v is emitted by
\* the rules of a top-level attribute (of the leaf's own name in an object, of
\* the attribute's name in a list)
RECURSIVE ReadsAsLeafwise(_, _)
ReadsAsLeafwise(name, v) ==
    IF IsList(v) THEN tupleOf([i \in 1..Len(v.list) |-> ReadsAsLeafwise(name, v.list[i])])
    ELSE IF IsObj(v) THEN
        objectOf(KeysInOrder(DOMAIN v.obj), [key \in DOMAIN v.obj |-> ReadsAsLeafwise(key, v.obj[key])])
    ELSE ParseTokens(EmitterTokens(name, v))

\* no string leaf of v falls under one of the three string rules
RECURSIVE HasOrdinaryLeaves(_, _)
HasOrdinaryLeaves(name, v) ==
    IF IsList(v) THEN \A i \in 1..Len(v.list) : HasOrdinaryLeaves(name, v.list[i])
    ELSE IF IsObj(v) THEN \A key \in DOMAIN v.obj : HasOrdinaryLeaves(key, v.obj[key])
    ELSE EmitterTokens(name, v) = ValueTokens(v)

\* keys of the input holding a list or an object that is emitted as an attribute
CompoundKeys ==
    {key \in DOMAIN orig.doc :
        /\ IsList(orig.doc[key]) \/ IsObj(orig.doc[key])
        /\ ~SelectedAsBlocks(key, orig.doc[key], targetFileType)}

\* C23: the attribute of a list or an object reads as if each string leaf had
\* been emitted by the rules of a top-level attribute: a type keyword bare,
\* "${r}" unwrapped into the expression r, a string with "${" verbatim.
C23_LeafRules ==
    ForwardRun =>
        \A key \in CompoundKeys :
            Emitted(key) => ParseTokens(native.Attributes[key]) = ReadsAsLeafwise(key, orig.doc[key])

\* the same for values whose string leaves are all ordinary
C23_OrdinaryLeaves ==
    ForwardRun =>
        \A key \in CompoundKeys :
            (Emitted(key) /\ HasOrdinaryLeaves(key, orig.doc[key])) =>
                ParseTokens(native.Attributes[key]) = ReadsAsLeafwise(key, orig.doc[key])

\* x = ["${a.a}"] has been printed with the leaf as an escaped literal, which
\* reads as the text ${a.a} and not as the reference a.a
C23_Witness ==
    /\ ForwardRun /\ pc = "done"
    /\ orig.doc = [key \in {"x"} |-> JList(<<JStr(<<"$", "{", "a", ".", "a", "}">>)>>)]
    /\ stdout.body.Attributes["x"] = ValueTokens(orig.doc["x"])
    /\ ParseTokens(stdout.body.Attributes["x"])
          = Parsed(TupleConsExpr(<<TemplateExpr(<<LiteralValueExpr(JStr(<<"$", "{", "a", ".", "a", "}">>))>>)>>))
    /\ ParseTokens(EmitterTokens("x", orig.doc["x"].list[1]))
          = Parsed(ScopeTraversalExpr(<<<<"a">>, <<"a">>>>, <<"a", ".", "a">>, FALSE))

(***************************************************************************)
(* Properties of the expression serializer                                 *)
(***************************************************************************)
\* the reverse run on the one attribute x has printed
Serialized == reverse /\ pc = "done" /\ orig.kind = "hcl" /\ stdout.kind = "json"

TheExpr == orig.body.Attributes["x"]

\* the source text of a node
SourceText(e) == IF e.Paren THEN e.Src \o <<")">> ELSE e.Src

\* C24: a traversal of one segment serializes to the string of its name with no
\* wrapper, and every other traversal to "${" + source + "}".
C24_TraversalSerialized ==
    (Serialized /\ TheExpr.k = "ScopeTraversalExpr") =>
        stdout.doc["x"] = IF Len(TheExpr.Traversal) = 1 THEN JStr(TheExpr.Traversal[1])
                          ELSE JStr(<<"$", "{">> \o TheExpr.Src \o <<"}">>)

\* x = var has been printed as "var" and not as "${var}"
C24_Witness ==
    /\ Serialized /\ TheExpr = RefLong
    /\ stdout.doc = [x \in {"x"} |-> JStr(<<"v", "a", "r">>)]

\* text with every "${" made "$${" and every "%{" made "%%{", in one pass
RECURSIVE EscapedText(_)
EscapedText(text) ==
    IF text = <<>> THEN <<>>
    ELSE IF Len(text) >= 2 /\ text[1] \in {"$", "%"} /\ text[2] = "{" THEN
        <<text[1], text[1], "{">> \o EscapedText(SubSeq(text, 3, Len(text)))
    ELSE <<text[1]>> \o EscapedText(Tail(text))

\* every "${" of the text is right after a "$" and every "%{" right after a "%"
IntroducersEscaped(text) ==
    \A i \in 1..(Len(text) - 1) :
        (text[i] \in {"$", "%"} /\ text[i + 1] = "{") => (i > 1 /\ text[i - 1] = text[i])

IsLiteralText(e) == e.k = "LiteralValueExpr" /\ IsStr(e.Val)

\* the rendering of a template part, a part of literal text by EscapedText
PartText(part) == IF IsLiteralText(part) THEN EscapedText(part.Val.str) ELSE convertStringPart(part).val

\* C25: a template of literal text alone serializes to the text with "${" and
\* "%{" escaped and nothing else changed, so every introducer of the output is
\* escaped; in a template with embedded expressions each part of literal text
\* is escaped the same way.
C25_LiteralEscaped ==
    (Serialized /\ TheExpr.k = "TemplateExpr") =>
        /\ IsStr(stdout.doc["x"])
        /\ stdout.doc["x"].str = Concat([i \in 1..Len(TheExpr.Parts) |-> PartText(TheExpr.Parts[i])])
        /\ (Len(TheExpr.Parts) = 1 /\ IsLiteralText(TheExpr.Parts[1])) =>
              /\ stdout.doc["x"].str = EscapedText(TheExpr.Parts[1].Val.str)
              /\ IntroducersEscaped(stdout.doc["x"].str)

\* the literal text %{${ has been printed as %%{$${
C25_Witness ==
    /\ Serialized /\ TheExpr = TemplateExpr(<<Lit(<<"%", "{", "$", "{">>)>>)
    /\ stdout.doc["x"] = JStr(<<"%", "%", "{", "$", "$", "{">>)

\* a part that is an embedded expression: no literal, no nested template and
\* no directive
IsEmbedded(part) == part.k \in {"ScopeTraversalExpr", "UnaryOpExpr", "OtherExpr"}

\* the part is a string for the expression serializer
SerializesToString(part) ==
    ConvertExpression(part).err = NoErr /\ IsStr(ConvertExpression(part).val)

\* the rendering of a part when an embedded expression is rendered as the
\* expression serializer returns it
DispatchedText(part) ==
    IF IsEmbedded(part) /\ SerializesToString(part) THEN ConvertExpression(part).val.str
    ELSE PartText(part)

\* the rendering of a part when an embedded expression is rendered as its
\* wrapped source text
WrappedText(part) ==
    IF IsEmbedded(part) THEN <<"$", "{">> \o SourceText(part) \o <<"}">> ELSE PartText(part)

\* C26 as stated: a template with embedded expressions serializes to the
\* renderings of its parts, an embedded expression rendered as the expression
\* serializer returns it alone: a traversal of one segment as its bare name.
C26_EmbeddedAsTopLevel ==
    (Serialized /\ TheExpr.k = "TemplateExpr") =>
        /\ IsStr(stdout.doc["x"])
        /\ stdout.doc["x"].str = Concat([i \in 1..Len(TheExpr.Parts) |-> DispatchedText(TheExpr.Parts[i])])

\* C26: a template with embedded expressions serializes to the renderings of
\* its parts, an embedded expression rendered as "${" + source + "}" whatever
\* its kind; a template of one interpolation alone serializes as the
\* expression in it.
C26_EmbeddedWrapped ==
    /\ (Serialized /\ TheExpr.k = "TemplateExpr") =>
          /\ IsStr(stdout.doc["x"])
          /\ stdout.doc["x"].str = Concat([i \in 1..Len(TheExpr.Parts) |-> WrappedText(TheExpr.Parts[i])])
    /\ (Serialized /\ TheExpr.k = "TemplateWrapExpr") =>
          stdout.doc["x"] = ConvertExpression(TheExpr.Wrapped).val

\* "a${a}" has been printed as a${a}, and "${a}" alone as a
C26_Witness ==
    /\ Serialized /\ TheExpr = TemplateExpr(<<Lit(<<"a">>), RefA>>)
    /\ stdout.doc["x"] = JStr(<<"a", "$", "{", "a", "}">>)
    /\ ConvertExpression(RefA) = Ret(JStr(<<"a">>), NoErr)
    /\ ConvertExpression(TemplateWrapExpr(RefA)) = Ret(JStr(<<"a">>), NoErr)

\* the fixed textual form of a template part
RECURSIVE Rendered(_)
Rendered(e) ==
    CASE e.k = "LiteralValueExpr" ->
            IF IsNull(e.Val) THEN <<"n", "u", "l", "l">>
            ELSE IF IsStr(e.Val) THEN EscapedText(e.Val.str)
            ELSE LiteralText(e.Val)
      [] e.k = "TemplateExpr" -> Concat([i \in 1..Len(e.Parts) |-> Rendered(e.Parts[i])])
      [] e.k = "TemplateWrapExpr" -> Rendered(e.Wrapped)
      [] e.k = "ConditionalExpr" ->
            <<"%", "{", "i", "f", " ">> \o SourceText(e.Condition) \o <<"}">>
            \o Rendered(e.TrueResult)
            \o (IF Rendered(e.FalseResult) # <<>>
                THEN <<"%", "{", "e", "l", "s", "e", "}">> \o Rendered(e.FalseResult) ELSE <<>>)
            \o <<"%", "{", "e", "n", "d", "i", "f", "}">>
      [] e.k = "TemplateJoinExpr" ->
            <<"%", "{", "f", "o", "r", " ">>
            \o (IF e.KeyVar # <<>> THEN e.KeyVar \o <<",", " ">> ELSE <<>>)
            \o e.ValVar \o <<" ", "i", "n", " ">> \o SourceText(e.CollExpr) \o <<"}">>
            \o Rendered(e.ValExpr)
            \o <<"%", "{", "e", "n", "d", "f", "o", "r", "}">>
      [] OTHER -> <<"$", "{">> \o SourceText(e) \o <<"}">>

\* the template has a directive at some depth
RECURSIVE HasDirective(_)
HasDirective(e) ==
    CASE e.k \in {"ConditionalExpr", "TemplateJoinExpr"} -> TRUE
      [] e.k = "TemplateExpr" -> \E i \in 1..Len(e.Parts) : HasDirective(e.Parts[i])
      [] e.k = "TemplateWrapExpr" -> HasDirective(e.Wrapped)
      [] OTHER -> FALSE

C27_ForWitness ==
    /\ Serialized
    /\ TheExpr = TemplateExpr(<<TemplateJoinExpr(<<"k">>, <<"v">>, CallA,
                                                TemplateExpr(<<Lit(<<"%", "{">>), RefA>>))>>)
    /\ stdout.doc["x"].str =
          <<"%", "{", "f", "o", "r", " ", "k", ",", " ", "v", " ", "i", "n", " ", "f", "(", "a", ")", "}",
            "%", "%", "{", "$", "{", "a", "}", "%", "{", "e", "n", "d", "f", "o", "r", "}">>

(***************************************************************************)
(* Termination                                                             *)
(***************************************************************************)
\* the top-level entries of the input: blocks of a body, keys of a document
InputSize ==
    CASE stdin.kind = "hcl" -> Len(stdin.body.Blocks)
      [] stdin.kind \in {"json", "jsondup"} -> Cardinality(DOMAIN stdin.doc)
      [] OTHER -> 0

\* an upper bound of the steps the run has left, in terms of the input
StepsLeft ==
    CASE pc = "main" -> InputSize + 4
      [] pc \in {"toJSON", "toHCL"} -> InputSize + 3
      [] pc = "blocks" -> (Len(body.Blocks) - idx) + 2
      [] pc = "partial" -> 2
      [] pc = "attrs" -> Cardinality(todo) + 1
      [] pc = "marshal" -> 1
      [] OTHER -> 0

Ended == pc \in {"done", "exit"}

\* C28: every step of a conversion leaves strictly less of the input to do
\* (each step converts one block or one attribute whole, all its recursion on
\* substructures included), and the run reaches its end state.
C28_Terminates ==
    /\ [][StepsLeft' < StepsLeft]_vars
    /\ <>Ended

\* {"resource": {"a": {"b": [{"x": 1}]}}} has been converted through two levels
\* of labels and printed
C28_Witness ==
    /\ ForwardRun /\ pc = "done" /\ StepsLeft = 0
    /\ orig.doc = [key \in {"resource"} |->
                      JObj([l \in {"a"} |-> JObj([m \in {"b"} |-> JList(<<JObj([x \in {"x"} |-> JNum(1)])>>)])])]
    /\ Len(stdout.body.Blocks) = 1
    /\ stdout.body.Blocks[1].Labels = <<"a", "b">>

\* a block inside a block with two labels has been serialized
C28_ReverseWitness ==
    /\ reverse /\ pc = "done" /\ StepsLeft = 0
    /\ Len(orig.body.Blocks) = 1
    /\ Len(orig.body.Blocks[1].Labels) = 2
    /\ Len(orig.body.Blocks[1].Body.Blocks) = 1

(***************************************************************************)
(* Nothing of the input is dropped                                         *)
(***************************************************************************)
\* the body holds something of the name: an attribute or a block of that type
Yields(b, name) ==
    \/ name \in DOMAIN b.Attributes
    \/ \E i \in 1..Len(b.Blocks) : b.Blocks[i].Type = name

\* every key of the document yields an attribute or a block of the output
C29_KeysKept ==
    (ForwardRun /\ pc = "done") => \A key \in DOMAIN orig.doc : Yields(stdout.body, key)

\* every content field of the one block of the document yields an attribute or
\* a nested block of that block
C29_FieldsKept ==
    /\ (ForwardRun /\ pc = "done" /\ ListFormDoc) =>
          /\ Len(stdout.body.Blocks) = 1
          /\ \A k \in DOMAIN TheInstance.obj : Yields(stdout.body.Blocks[1].Body, k)
    /\ (ForwardRun /\ pc = "done" /\ ObjectFormDoc) =>
          /\ Len(stdout.body.Blocks) = 1
          /\ \A k \in DOMAIN TheObjectContent : Yields(stdout.body.Blocks[1].Body, k)

\* C29: the forward conversion drops nothing: every key of the input document
\* yields an attribute or a block of the output body, and every content field
\* of a block yields an attribute or a nested block inside that block.
C29_NothingDropped == C29_KeysKept /\ C29_FieldsKept

\* {"resource": {}} has been printed under the terraform dialect as the empty
\* body
C29_Witness ==
    /\ ForwardRun /\ pc = "done" /\ targetFileType = "terraform"
    /\ orig.doc = [key \in {"resource"} |-> JObj(EmptyMap)]
    /\ err = NoErr
    /\ stdout.body = EmptyNative

\* {"resource": [{"subnets": [], "x": 1}]} has been printed as resource { x = 1 }
C29_EmptyListWitness ==
    /\ ForwardRun /\ pc = "done" /\ ListFormDoc
    /\ DOMAIN TheInstance.obj = {"subnets", "x"}
    /\ TheInstance.obj["subnets"] = JList(<<>>)
    /\ Len(stdout.body.Blocks) = 1
    /\ DOMAIN stdout.body.Blocks[1].Body.Attributes = {"x"}
    /\ stdout.body.Blocks[1].Body.Blocks = <<>>

(***************************************************************************)
(* The order in which the keys of an object are visited                    *)
(***************************************************************************)
\* what a body holds, the order of its blocks left out: its attributes and the
\* multiset of its blocks (type, labels, content), a block counted as often as
\* it occurs
RECURSIVE BodyContent(_)
BodyContent(b) ==
    LET item(i) == [Type |-> b.Blocks[i].Type, Labels |-> b.Blocks[i].Labels,
                    Content |-> BodyContent(b.Blocks[i].Body)]
        items == {item(i) : i \in 1..Len(b.Blocks)}
    IN  [Attributes |-> b.Attributes,
         Blocks |-> [x \in items |-> Cardinality({i \in 1..Len(b.Blocks) : item(i) = x})]]

\* what the body holds of the key: its attribute and the blocks of its type
PartOf(b, key) ==
    [Attributes |-> [k \in DOMAIN b.Attributes \cap {key} |-> b.Attributes[k]],
     Blocks |-> SelectSeq(b.Blocks, LAMBDA blk : blk.Type = key)]

\* C30: for a document and a dialect, what the printed body holds of a key is
\* what the conversion of that key yields under every order in which the keys
\* of the objects are visited, a conversion that fails part-way included.
C30_OrderIndependent ==
    (ForwardRun /\ pc = "done") =>
        \A key \in DOMAIN orig.doc, order \in MapOrders :
            BodyContent(PartOf(stdout.body, key)) =
                BodyContent(convertAttribute(key, orig.doc[key], EmptyNative, targetFileType, order))

\* {"variable": {"a": [{}], "b": 1}} has been printed under the terraform
\* dialect, and the two orders of visiting a and b yield different bodies
C30_Witness ==
    /\ ForwardRun /\ pc = "done" /\ targetFileType = "terraform"
    /\ DOMAIN orig.doc = {"variable"}
    /\ orig.doc["variable"] = JObj([l \in {"a", "b"} |->
                                       IF l = "a" THEN JList(<<JObj(EmptyMap)>>) ELSE JNum(1)])
    /\ BodyContent(convertAttribute("variable", orig.doc["variable"], EmptyNative, "terraform", "up"))
          # BodyContent(convertAttribute("variable", orig.doc["variable"], EmptyNative, "terraform", "down"))
    /\ \E order \in MapOrders :
          stdout.body = convertAttribute("variable", orig.doc["variable"], EmptyNative, "terraform", order)

====
